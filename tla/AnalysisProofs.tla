--------------------------- MODULE AnalysisProofs ---------------------------
(***************************************************************************)
(* Theorems about the analysis of a recorded run: IdiomPasses,             *)
(* DerivedFindings, SymexDrive and CohortEvidence.                         *)
(***************************************************************************)
EXTENDS IdiomPasses, DerivedFindings, SymexDrive, CohortEvidence, FiniteOrders,
        SequenceTheorems

-----------------------------------------------------------------------------
(* IdiomPasses.                                                            *)

(* A fold is in the bag of findings at most once.                          *)
FoldInv == \A c \in DOMAIN claims : c.layer = "fold" => claims[c] = 1

(* What a set adds to a bag.                                               *)
LEMMA BagPlusSet ==
  ASSUME NEW bag, NEW S
  PROVE  /\ DOMAIN (bag (+) SetToBag(S)) = DOMAIN bag \union S
         /\ \A e \in DOMAIN bag \ S : bag[e] = 1 => (bag (+) SetToBag(S))[e] = 1
         /\ \A e \in S \ DOMAIN bag : (bag (+) SetToBag(S))[e] = 1
BY DEF (+), SetToBag

(* Adding findings to the ledger, of which none that is there is a fold.   *)
LEMMA AddedKeepsFolds ==
  ASSUME FoldInv, NEW S, claims' = claims (+) SetToBag(S),
         \A c \in S : c.layer = "fold" => c \notin DOMAIN claims
  PROVE  FoldInv'
<1> DEFINE sum == claims (+) SetToBag(S)
<1>1. /\ DOMAIN sum = DOMAIN claims \union S
      /\ \A e \in DOMAIN claims \ S : claims[e] = 1 => sum[e] = 1
      /\ \A e \in S \ DOMAIN claims : sum[e] = 1
  BY BagPlusSet
<1>2. claims' = sum
  OBVIOUS
<1> HIDE DEF sum
<1> QED
  BY <1>1, <1>2 DEF FoldInv

\* A sigma pass adds only folds that are not on record.
LEMMA SigmaKeepsFolds == ASSUME FoldInv, SigmaPass PROVE FoldInv'
<1>1. claims' = claims (+) SetToBag(SigmaScan)
  BY DEF SigmaPass, RunPass
<1>2. \A c \in SigmaScan : c \notin DOMAIN claims
  <2>1. ASSUME NEW I, Fresh(I), Fold(I) \in DOMAIN claims
        PROVE  FALSE
    <3>1. Fold(I).layer = "fold" /\ Fold(I).places = Places(I)
      BY DEF Fold, Claim
    <3>2. Places(I) \in Folded
      BY <2>1, <3>1 DEF Folded, BagToSet
    <3> QED
      BY <2>1, <3>2 DEF Fresh
  <2> QED
    BY <2>1 DEF SigmaScan
<1> QED
  BY <1>1, <1>2, AddedKeepsFolds

(* For every program, word size and set of templates: a triple of places   *)
(* is promoted as a sigma fold once, in whatever order and however often   *)
(* the passes run over one ledger (_handler_verify.py, sigma search).      *)
THEOREM FoldsAreFoundOnce == IdiomSpec => []FoldedOnce
<1>1. IdiomInit => FoldInv
  BY DEF IdiomInit, FoldInv, EmptyBag, SetToBag
<1>2. ASSUME FoldInv, [IdiomNext]_idiomVars
      PROVE  FoldInv'
  <2>1. ASSUME NEW S, \A c \in S : c.layer # "fold", claims' = claims (+) SetToBag(S)
        PROVE  FoldInv'
    BY <1>2, <2>1, AddedKeepsFolds
  <2>2. ASSUME NEW layer \in DOMAIN Layer0, RunPass(layer, Scan(layer), {})
        PROVE  FoldInv'
    <3>1. layer # "fold"
      BY <2>2 DEF Layer0
    <3>2. \A c \in Scan(layer) : c.layer # "fold"
      BY <3>1 DEF Scan, Claim
    <3> QED
      BY <2>1, <2>2, <3>2 DEF RunPass
  <2>3. CASE ChPass
    <3>1. \A c \in ChScan : c.layer # "fold"
      BY DEF ChScan, Claim
    <3> QED
      BY <2>1, <2>3, <3>1 DEF ChPass, RunPass
  <2>4. CASE MajPass
    <3>1. \A c \in MajScan : c.layer # "fold"
      BY DEF MajScan, Claim
    <3> QED
      BY <2>1, <2>4, <3>1 DEF MajPass, RunPass
  <2>5. CASE TritonPass
    <3>1. \A c \in TritonScan : c.layer # "fold"
      BY DEF TritonScan, Claim
    <3>2. PICK available \in BOOLEAN :
             claims' = claims (+) SetToBag(IF available THEN TritonScan ELSE {})
      BY <2>5 DEF TritonPass, RunPass
    <3> QED
      BY <2>1, <3>1, <3>2
  <2>6. CASE SigmaPass
    BY <1>2, <2>6, SigmaKeepsFolds
  <2>7. CASE UNCHANGED idiomVars
    BY <1>2, <2>7 DEF idiomVars, FoldInv
  <2> QED
    BY <1>2, <2>2, <2>3, <2>4, <2>5, <2>6, <2>7 DEF IdiomNext, Layer0Pass
<1>3. FoldInv => FoldedOnce
  <2>1. ASSUME FoldInv, NEW c \in BagToSet(claims), c.layer = "fold"
        PROVE  claims[c] = 1
    BY <2>1 DEF FoldInv, BagToSet
  <2> QED
    BY <2>1 DEF FoldedOnce
<1> QED
  BY <1>1, <1>2, <1>3, PTL DEF IdiomSpec
(* The recorded execution, told by its registers.                          *)
Registers == [Regs -> SUBSET Int]
Recorded == recording \in [code : Programs, start : [Inputs -> Words]]

\* What the assumption on programs says of the recorded one.
LEMMA CodeIsTyped ==
  ASSUME IdiomAssumption, Recorded
  PROVE  /\ Len(Code) \in Nat /\ Idx = 1..Len(Code)
         /\ \A i \in Idx :
               /\ Code[i].op \in Ops
               /\ Code[i].dst \in Regs /\ Code[i].a \in Regs /\ Code[i].b \in Regs
               /\ Code[i].op \in {"ror", "lsr", "eor_sh"} => Code[i].n \in Nat
<1>1. Code \in Programs
  BY DEF Recorded, Code
<1> QED
  BY <1>1 DEF IdiomAssumption, Idx

\* A shift of a word is a word.
LEMMA ShiftIsAWord ==
  ASSUME IdiomAssumption, NEW kind, NEW n \in Nat, NEW w \in SUBSET Int
  PROVE  ShiftedBy(kind, n, w) \in SUBSET Int
<1>1. \A b \in w : (b + Width - n) % Width \in Int /\ b - n \in Int
  BY SMT DEF IdiomAssumption
<1>2. CASE kind = "ror"
  BY <1>1, <1>2 DEF ShiftedBy
<1>3. CASE kind # "ror"
  BY <1>1, <1>3 DEF ShiftedBy
<1> QED
  BY <1>2, <1>3

(* What an instruction computes.                                           *)
LEMMA Operations ==
  ASSUME NEW ins, NEW r
  PROVE  /\ ins.op = "eor" => Computed(ins, r) = Xor(r[ins.a], r[ins.b])
         /\ ins.op = "and" => Computed(ins, r) = r[ins.a] \intersect r[ins.b]
         /\ ins.op = "orr" => Computed(ins, r) = r[ins.a] \union r[ins.b]
         /\ ins.op = "bic" => Computed(ins, r) = r[ins.a] \ r[ins.b]
         /\ ins.op = "mov" => Computed(ins, r) = r[ins.a]
         /\ ins.op \in {"ror", "lsr"} => Computed(ins, r) = ShiftedBy(ins.op, ins.n, r[ins.a])
         /\ ins.op = "eor_sh" =>
               Computed(ins, r) = Xor(r[ins.a], ShiftedBy(ins.kind, ins.n, r[ins.b]))
BY DEF Computed

\* What an instruction computes of words is a word.
LEMMA ComputedIsAWord ==
  ASSUME IdiomAssumption, Recorded, NEW i \in Idx, NEW r \in Registers
  PROVE  Computed(Code[i], r) \in SUBSET Int
<1> DEFINE ins == Code[i]
<1>1. ins.op \in Ops /\ r[ins.a] \in SUBSET Int /\ r[ins.b] \in SUBSET Int
  BY CodeIsTyped DEF Registers
<1>2. ins.op \in {"ror", "lsr", "eor_sh"} =>
        /\ ShiftedBy(ins.op, ins.n, r[ins.a]) \in SUBSET Int
        /\ ShiftedBy(ins.kind, ins.n, r[ins.b]) \in SUBSET Int
  BY <1>1, CodeIsTyped, ShiftIsAWord
<1>3. \A v, w \in SUBSET Int : Xor(v, w) \in SUBSET Int
  BY DEF Xor
<1> DEFINE word == Computed(ins, r)
<1>o. /\ ins.op = "eor" => word = Xor(r[ins.a], r[ins.b])
      /\ ins.op = "and" => word = r[ins.a] \intersect r[ins.b]
      /\ ins.op = "orr" => word = r[ins.a] \union r[ins.b]
      /\ ins.op = "bic" => word = r[ins.a] \ r[ins.b]
      /\ ins.op = "mov" => word = r[ins.a]
      /\ ins.op \in {"ror", "lsr"} => word = ShiftedBy(ins.op, ins.n, r[ins.a])
      /\ ins.op = "eor_sh" =>
               word = Xor(r[ins.a], ShiftedBy(ins.kind, ins.n, r[ins.b]))
  BY Operations
<1>w. word = Computed(Code[i], r)
  OBVIOUS
<1> HIDE DEF ins, word
<1>4. CASE ins.op \in {"ror", "lsr", "eor_sh"}
  BY <1>1, <1>2, <1>3, <1>4, <1>o, <1>w
<1>5. CASE ins.op \notin {"ror", "lsr", "eor_sh"}
  <2>1. ins.op \in {"eor", "and", "orr", "bic", "mov"}
    BY <1>1, <1>5 DEF Ops
  <2>2. CASE ins.op = "eor"
    BY <1>1, <1>3, <2>2, <1>o, <1>w
  <2>3. CASE ins.op \in {"and", "orr", "bic", "mov"}
    BY <1>1, <2>3, <1>o, <1>w
  <2> QED
    BY <2>1, <2>2, <2>3
<1> QED
  BY <1>4, <1>5

(* The recorded execution exists: each instruction changes its destination *)
(* and nothing else.                                                       *)
LEMMA Execution ==
  ASSUME IdiomAssumption, Recorded
  PROVE  /\ \A i \in 1..Len(Code) + 1 : Before[i] \in Registers
         /\ \A i \in Idx : Before[i + 1] =
               [Before[i] EXCEPT ![Code[i].dst] = Computed(Code[i], Before[i])]
<1> DEFINE N == Len(Code)
           first == [r \in Regs |-> IF r \in Inputs THEN recording.start[r] ELSE {}]
           g == [n \in 1..N |-> [v \in Registers |->
                   [v EXCEPT ![Code[n].dst] = Computed(Code[n], v)]]]
<1>1. N \in Nat /\ Idx = 1..N /\ \A n \in 1..N : Code[n].dst \in Regs
  BY CodeIsTyped
<1>2. first \in Registers
  <2>1. \A r \in Inputs : recording.start[r] \in SUBSET Int
    <3>1. recording.start \in [Inputs -> Words]
      BY DEF Recorded
    <3>2. 0..Width - 1 \subseteq Int
      BY DEF IdiomAssumption
    <3> QED
      BY <3>1, <3>2 DEF IdiomAssumption
  <2> QED
    BY <2>1 DEF Registers
<1>3. \A n \in 1..N, v \in Registers :
         [v EXCEPT ![Code[n].dst] = Computed(Code[n], v)] \in Registers
  <2>1. ASSUME NEW n \in 1..N, NEW v \in Registers
        PROVE  [v EXCEPT ![Code[n].dst] = Computed(Code[n], v)] \in Registers
    <3>1. Computed(Code[n], v) \in SUBSET Int
      BY <1>1, <2>1, ComputedIsAWord
    <3> QED
      BY <1>1, <2>1, <3>1 DEF Registers
  <2> QED
    BY <2>1
<1> HIDE DEF N, first
<1>4. g \in [1..N -> [Registers -> Registers]]
  BY <1>3
<1>5. \A n \in 1..N, v \in Registers : g[n][v] = [v EXCEPT ![Code[n].dst] = Computed(Code[n], v)]
  OBVIOUS
<1> HIDE DEF g
<1>6. PICK f : Solves(f, N, Registers, first, g)
  BY <1>1, <1>2, <1>4, RecursionUpTo DEF StepsWithin
<1>7. /\ f \in [0..N -> Registers] /\ f[0] = first
      /\ \A n \in 1..N : f[n] = g[n][f[n - 1]]
  BY <1>6 DEF Solves
<1> DEFINE h == [i \in 1..N + 1 |-> f[i - 1]]
<1>8. h = [i \in 1..N + 1 |->
             IF i = 1 THEN first
             ELSE [h[i - 1] EXCEPT ![Code[i - 1].dst] = Computed(Code[i - 1], h[i - 1])]]
  <2>1. ASSUME NEW i \in 1..N + 1, i # 1
        PROVE  f[i - 1] = [h[i - 1] EXCEPT ![Code[i - 1].dst] = Computed(Code[i - 1], h[i - 1])]
    <3>1. i - 1 \in 1..N /\ (i - 1) - 1 \in 0..N /\ i - 1 \in 1..N + 1
      BY <1>1, <2>1
    <3>2. h[i - 1] = f[(i - 1) - 1] /\ f[(i - 1) - 1] \in Registers
      BY <1>7, <3>1
    <3>3. f[i - 1] = g[i - 1][f[(i - 1) - 1]]
      BY <1>7, <3>1
    <3> DEFINE v == h[i - 1]
    <3>4. v \in Registers /\ f[i - 1] = g[i - 1][v]
      BY <3>2, <3>3
    <3> HIDE DEF v
    <3>5. f[i - 1] = [v EXCEPT ![Code[i - 1].dst] = Computed(Code[i - 1], v)]
      BY <1>5, <3>1, <3>4
    <3> QED
      BY <3>5 DEF v
  <2>2. \A i \in 1..N + 1 : h[i] = f[i - 1]
    OBVIOUS
  <2>3. h[1] = first
    BY <1>1, <1>7, <2>2
  <2>4. \A i \in 1..N + 1 : h[i] = IF i = 1 THEN first
             ELSE [h[i - 1] EXCEPT ![Code[i - 1].dst] = Computed(Code[i - 1], h[i - 1])]
    <3> HIDE DEF h
    <3> QED
      BY <2>1, <2>2, <2>3
  <2>5. h = [i \in 1..N + 1 |-> h[i]]
    OBVIOUS
  <2> HIDE DEF h
  <2> QED
    BY <2>4, <2>5
<1> HIDE DEF h
<1>9. Before = [i \in 1..N + 1 |->
                  IF i = 1 THEN first
                  ELSE [Before[i - 1] EXCEPT ![Code[i - 1].dst] = Computed(Code[i - 1], Before[i - 1])]]
  BY <1>8 DEF Before, N, first
<1>10. \A i \in 1..N : Before[i + 1] = [Before[i] EXCEPT ![Code[i].dst] = Computed(Code[i], Before[i])]
  <2>1. ASSUME NEW i \in 1..N
        PROVE  Before[i + 1] = [Before[i] EXCEPT ![Code[i].dst] = Computed(Code[i], Before[i])]
    <3>1. i + 1 \in 1..N + 1 /\ i + 1 # 1 /\ (i + 1) - 1 = i
      BY <1>1
    <3> QED
      BY <1>9, <3>1
  <2> QED
    BY <2>1
<1> DEFINE Good == {n \in 0..N : Before[n + 1] \in Registers}
<1>11. 0 \in Good
  BY <1>1, <1>2, <1>9
<1>12. \A n \in 1..N : n - 1 \in Good => n \in Good
  <2>1. ASSUME NEW n \in 1..N, n - 1 \in Good
        PROVE  n \in Good
    <3>1. (n - 1) + 1 = n /\ n \in 0..N
      BY <1>1
    <3>2. Before[n] \in Registers
      BY <2>1, <3>1
    <3>3. Before[n + 1] \in Registers
      <4> DEFINE v == Before[n]
      <4>1. v \in Registers /\ Before[n + 1] = [v EXCEPT ![Code[n].dst] = Computed(Code[n], v)]
        BY <1>10, <3>2
      <4> HIDE DEF v
      <4> QED
        BY <1>3, <4>1
    <3> QED
      BY <3>1, <3>3
  <2> QED
    BY <2>1
<1>13. 0..N \subseteq Good
  <2> HIDE DEF Good
  <2> QED
    BY <1>1, <1>11, <1>12, InductionUpTo
<1>14. \A i \in 1..N + 1 : i - 1 \in 0..N /\ (i - 1) + 1 = i
  BY <1>1
<1> QED
  BY <1>1, <1>10, <1>13, <1>14 DEF N

\* A register keeps its word while nothing writes it.
LEMMA Kept ==
  ASSUME IdiomAssumption, Recorded, NEW r \in Regs,
         NEW i \in 1..Len(Code) + 1, NEW k \in 1..Len(Code) + 1, i <= k,
         \A j \in i..k - 1 : ~Writes(j, r)
  PROVE  Before[k][r] = Before[i][r]
<1> DEFINE N == Len(Code)
           Good == {n \in 0..k - i : Before[i + n][r] = Before[i][r]}
<1>1. N \in Nat /\ Idx = 1..N /\ k - i \in Nat
  BY CodeIsTyped
<1>2. 0 \in Good
  BY <1>1
<1>3. ASSUME NEW n \in 1..k - i, n - 1 \in Good
      PROVE  n \in Good
  <2>1. /\ i + (n - 1) \in i..k - 1 /\ i + (n - 1) \in 1..N /\ i + (n - 1) \in 1..N + 1
        /\ (i + (n - 1)) + 1 = i + n /\ n \in 0..k - i
    <3> HIDE DEF Good
    <3>1. i \in 1..N + 1 /\ k \in 1..N + 1 /\ n \in 1..k - i
      OBVIOUS
    <3> HIDE DEF N
    <3> QED
      BY <1>1, <3>1
  <2> DEFINE j == i + (n - 1)
  <2>2. Before[j + 1] = [Before[j] EXCEPT ![Code[j].dst] = Computed(Code[j], Before[j])]
    BY <1>1, <2>1, Execution
  <2>3. Before[j] \in Registers /\ Code[j].dst # r
    BY <2>1, Execution DEF Writes
  <2>4. Before[j + 1][r] = Before[j][r]
    <3> HIDE DEF j
    <3> QED
      BY <2>2, <2>3 DEF Registers
  <2>5. Before[j][r] = Before[i][r]
    BY <1>3 DEF j
  <2> QED
    BY <2>1, <2>4, <2>5
<1>4. 0..k - i \subseteq Good
  <2> HIDE DEF Good
  <2> QED
    BY <1>1, <1>2, <1>3, InductionUpTo
<1>5. k - i \in 0..k - i /\ i + (k - i) = k
  BY <1>1
<1> QED
  BY <1>4, <1>5

\* What an instruction wrote is what it computed of the registers before it.
LEMMA Written ==
  ASSUME IdiomAssumption, Recorded, NEW i \in Idx
  PROVE  Wrote(i) = Computed(Code[i], Before[i])
<1>1. i \in 1..Len(Code) + 1 /\ Code[i].dst \in Regs
  BY CodeIsTyped
<1>2. Before[i + 1] = [Before[i] EXCEPT ![Code[i].dst] = Computed(Code[i], Before[i])]
  BY Execution
<1>3. Before[i] \in Registers
  BY <1>1, Execution
<1> QED
  BY <1>1, <1>2, <1>3 DEF Wrote, Registers

\* A register holds what its last writer wrote.
LEMMA HeldFromLastWriter ==
  ASSUME IdiomAssumption, Recorded, NEW r \in Regs, NEW i \in Idx, NEW k \in Idx,
         LastWriter(k, r) = i
  PROVE  /\ i < k /\ Writes(i, r) /\ \A j \in i + 1..k - 1 : ~Writes(j, r)
         /\ Before[k][r] = Wrote(i)
<1> DEFINE W == {j \in 1..k - 1 : Writes(j, r)}
<1>1. Len(Code) \in Nat /\ Idx = 1..Len(Code)
  BY CodeIsTyped
<1>2. W # {} /\ Max(W) = i
  BY <1>1 DEF LastWriter
<1>3. IsFiniteSet(W) /\ W \in SUBSET Int
  <2>1. IsFiniteSet(1..k - 1)
    BY <1>1, UpToIsFinite
  <2> QED
    BY <1>1, <2>1, SubsetIsFinite
<1>4. i \in W /\ \A y \in W : y <= i
  BY <1>2, <1>3, MaxOfFinite
<1>5. i < k /\ Writes(i, r) /\ \A j \in i + 1..k - 1 : ~Writes(j, r)
  BY <1>1, <1>4
<1>6. Before[k][r] = Before[i + 1][r]
  <2>1. i + 1 \in 1..Len(Code) + 1 /\ k \in 1..Len(Code) + 1 /\ i + 1 <= k
    BY <1>1, <1>5
  <2> QED
    BY <1>5, <2>1, Kept
<1> QED
  BY <1>5, <1>6 DEF Wrote, Writes

(* The three instructions of an emitted Ch pass the matcher's test.        *)
LEMMA EmittedChIsMatched ==
  ASSUME IdiomAssumption, Recorded, NEW i \in EmittedCh
  PROVE  i \in ChWindows
<1> DEFINE t == Code[i].dst  y == Code[i].a  z == Code[i].b
           x == OtherThan(i + 1, t)  c == OtherThan(i + 2, t)
           o == ChOperands(i)
<1>1. /\ i \in Idx /\ OpAt(i, "eor") /\ OpAt(i + 1, "and") /\ OpAt(i + 2, "eor")
      /\ LastWriter(i + 2, t) = i + 1
      /\ Reads(i + 1, t) /\ Reads(i + 2, t) /\ c \in {y, z}
      /\ Cardinality({t, y, z, x}) = 4
  BY DEF EmittedCh
<1>2. /\ Len(Code) \in Nat /\ Idx = 1..Len(Code) /\ i + 1 \in Idx /\ i + 2 \in Idx
      /\ \A j \in Idx : Code[j].dst \in Regs /\ Code[j].a \in Regs /\ Code[j].b \in Regs
  BY <1>1, CodeIsTyped DEF OpAt
<1>3. t \in Regs /\ y \in Regs /\ z \in Regs /\ x \in Regs /\ c \in Regs
  BY <1>2, <1>1 DEF OtherThan
<1>4. t # y /\ t # z /\ t # x /\ y # z /\ x # y /\ x # z
  BY <1>1, FourApart
<1> DEFINE B == Before[i]
<1>5. Code[i + 1].dst = t
  BY <1>1, <1>2, <1>3, HeldFromLastWriter DEF Writes
<1>6. \A r \in Regs : r # t => Before[i + 1][r] = B[r] /\ Before[i + 2][r] = B[r]
  <2>1. ASSUME NEW r \in Regs, r # t
        PROVE  Before[i + 1][r] = B[r] /\ Before[i + 2][r] = B[r]
    <3>1. \A j \in i..i + 1 : ~Writes(j, r)
      BY <1>1, <1>2, <1>5, <2>1 DEF Writes
    <3>2. /\ i \in 1..Len(Code) + 1 /\ i + 1 \in 1..Len(Code) + 1 /\ i + 2 \in 1..Len(Code) + 1
          /\ \A j \in i..(i + 1) - 1 : ~Writes(j, r)
          /\ \A j \in i..(i + 2) - 1 : ~Writes(j, r)
          /\ i <= i + 1 /\ i <= i + 2
      BY <1>1, <1>2, <3>1
    <3>3. Before[i + 1][r] = B[r]
      BY <2>1, <3>2, Kept
    <3>4. Before[i + 2][r] = B[r]
      BY <2>1, <3>2, Kept
    <3> QED
      BY <3>3, <3>4
  <2> QED
    BY <2>1
<1>7. Before[i + 1][t] = Xor(B[y], B[z])
  <2>1. Wrote(i) = Computed(Code[i], B) /\ Code[i].op = "eor"
    BY <1>1, Written DEF OpAt
  <2> QED
    BY <2>1, Operations DEF Wrote
<1>8. Before[i + 2][t] = Xor(B[y], B[z]) \intersect B[x]
  <2>1. Wrote(i + 1) = Before[i + 2][t]
    <3>1. (i + 1) + 1 = i + 2
      BY <1>1, <1>2
    <3> QED
      BY <1>5, <3>1 DEF Wrote
  <2>2. Wrote(i + 1) = Computed(Code[i + 1], Before[i + 1]) /\ Code[i + 1].op = "and"
    BY <1>1, <1>2, Written DEF OpAt
  <2>3. {Code[i + 1].a, Code[i + 1].b} = {t, x}
    BY <1>1 DEF Reads, OtherThan
  <2>4. Wrote(i + 1) = Before[i + 1][Code[i + 1].a] \intersect Before[i + 1][Code[i + 1].b]
    BY <2>2, Operations
  <2>5. Wrote(i + 1) = Before[i + 1][t] \intersect Before[i + 1][x]
    BY <2>3, <2>4
  <2> QED
    BY <1>3, <1>4, <1>6, <1>7, <2>1, <2>5
<1>9. Wrote(i + 2) = Xor(Xor(B[y], B[z]) \intersect B[x], B[c])
  <2>1. Wrote(i + 2) = Computed(Code[i + 2], Before[i + 2]) /\ Code[i + 2].op = "eor"
    BY <1>1, <1>2, Written DEF OpAt
  <2>2. {Code[i + 2].a, Code[i + 2].b} = {t, c}
    BY <1>1 DEF Reads, OtherThan
  <2>3. Wrote(i + 2) = Xor(Before[i + 2][Code[i + 2].a], Before[i + 2][Code[i + 2].b])
    BY <2>1, Operations
  <2>4. Wrote(i + 2) = Xor(Before[i + 2][t], Before[i + 2][c])
    BY <2>2, <2>3 DEF Xor
  <2>5. c # t
    BY <1>1, <1>4
  <2> QED
    BY <1>3, <1>6, <1>8, <2>4, <2>5
<1>10. /\ o.x = x /\ o.fits /\ o.y \in {y, z} /\ o.z = c /\ o.y # c
       /\ {o.y, o.z} = {y, z}
  BY <1>1, <1>4 DEF ChOperands
<1>11. \A r \in {x, y, z} : ChInput(i, r) = B[r]
  BY <1>3, <1>4, <1>6 DEF ChInput
<1>12. Ch(B[x], B[o.y], B[c]) = Xor(Xor(B[y], B[z]) \intersect B[x], B[c])
  <2>1. CASE o.y = y /\ c = z
    BY <2>1 DEF Ch, Xor
  <2>2. CASE o.y = z /\ c = y
    BY <2>2 DEF Ch, Xor
  <2> QED
    BY <1>1, <1>10, <2>1, <2>2
<1>13. Ch(ChInput(i, o.x), ChInput(i, o.y), ChInput(i, o.z)) = Wrote(i + 2)
  BY <1>9, <1>10, <1>11, <1>12
<1> QED
  BY <1>1, <1>5, <1>10, <1>13 DEF ChWindows

OnThree(P, i, j, k) == i # j /\ i # k /\ j # k /\ DOMAIN P = {i, j, k}

(* The bits an odd number of three words have are those of their sum.      *)
LEMMA XorOfThree ==
  ASSUME NEW i, NEW j, NEW k, NEW P, OnThree(P, i, j, k)
  PROVE  XorAll(P) = Xor(Xor(P[i], P[j]), P[k])
<1> USE DEF OnThree
<1> DEFINE Of(b) == {m \in {i, j, k} : b \in P[m]}
<1>1. XorAll(P) = {b \in P[i] \union P[j] \union P[k] : Cardinality(Of(b)) % 2 = 1}
  <2>1. UNION Range(P) = P[i] \union P[j] \union P[k]
    BY DEF Range
  <2> QED
    BY <2>1 DEF XorAll
<1>2. \A b : (Cardinality(Of(b)) % 2 = 1) <=>
              \/ b \in P[i] /\ b \notin P[j] /\ b \notin P[k]
              \/ b \notin P[i] /\ b \in P[j] /\ b \notin P[k]
              \/ b \notin P[i] /\ b \notin P[j] /\ b \in P[k]
              \/ b \in P[i] /\ b \in P[j] /\ b \in P[k]
  <2>1. ASSUME NEW b
        PROVE  (Cardinality(Of(b)) % 2 = 1) <=>
              \/ b \in P[i] /\ b \notin P[j] /\ b \notin P[k]
              \/ b \notin P[i] /\ b \in P[j] /\ b \notin P[k]
              \/ b \notin P[i] /\ b \notin P[j] /\ b \in P[k]
              \/ b \in P[i] /\ b \in P[j] /\ b \in P[k]
    <3>1. Of(b) \subseteq {i, j, k} /\ \A m \in {i, j, k} : m \in Of(b) <=> b \in P[m]
      OBVIOUS
    <3> HIDE DEF Of
    <3>2. (Cardinality(Of(b)) % 2 = 1) <=>
            \/ i \in Of(b) /\ j \notin Of(b) /\ k \notin Of(b)
            \/ i \notin Of(b) /\ j \in Of(b) /\ k \notin Of(b)
            \/ i \notin Of(b) /\ j \notin Of(b) /\ k \in Of(b)
            \/ i \in Of(b) /\ j \in Of(b) /\ k \in Of(b)
      BY <3>1, ParityOfThree
    <3> QED
      BY <3>1, <3>2
  <2> QED
    BY <2>1
<1>3. Xor(Xor(P[i], P[j]), P[k]) =
        {b \in P[i] \union P[j] \union P[k] :
              \/ b \in P[i] /\ b \notin P[j] /\ b \notin P[k]
              \/ b \notin P[i] /\ b \in P[j] /\ b \notin P[k]
              \/ b \notin P[i] /\ b \notin P[j] /\ b \in P[k]
              \/ b \in P[i] /\ b \in P[j] /\ b \in P[k]}
  BY DEF Xor
<1> HIDE DEF Of
<1> QED
  BY <1>1, <1>2, <1>3

(* A chain the compiler emitted is among the triples the ungrouped search  *)
(* tries, and passes its tests.                                            *)
LEMMA EmittedSigmaIsFound ==
  ASSUME IdiomAssumption, Recorded, NEW I \in EmittedSigma
  PROVE  I \in Ungrouped
<1>1. I \subseteq Idx /\ Cardinality(I) = 3
  <2>1. I \in Triples(Idx)
    BY DEF EmittedSigma
  <2> QED
    BY <2>1 DEF Triples
<1>2. PICK i \in I, j \in I, k \in I :
         /\ i < j /\ j < k /\ j - i <= Gap /\ k - j <= Gap
         /\ IsSeed(i) /\ IsStep(j) /\ IsStep(k)
         /\ Cardinality({Source(m) : m \in I}) = 1 /\ Steady(i, k - 1, Source(i))
         /\ LastWriter(j, Code[j].a) = i /\ LastWriter(k, Code[k].a) = j
         /\ {Piece(m) : m \in I} \in Templates
  BY DEF EmittedSigma
<1>3. Len(Code) \in Nat /\ Idx = 1..Len(Code) /\ i \in Idx /\ j \in Idx /\ k \in Idx
  BY <1>1, CodeIsTyped
<1>4. IsFiniteSet(I) /\ I \in SUBSET Int
  <2>1. IsFiniteSet(1..Len(Code)) /\ I \subseteq 1..Len(Code)
    BY <1>1, <1>3, UpToIsFinite
  <2>2. IsFiniteSet(I)
    BY <2>1, SubsetIsFinite
  <2> QED
    BY <1>3, <2>1, <2>2
<1>5. I = {i, j, k} /\ i # j /\ i # k /\ j # k
  <2>1. i # j /\ i # k /\ j # k
    BY <1>2, <1>3
  <2> QED
    BY <1>1, <1>4, <2>1, ThreeOfThree
<1>6. Min(I) = i /\ Max(I) = k
  <2>1. Min(I) \in I /\ \A y \in I : Min(I) <= y
    BY <1>4, <1>5, MinOfFinite
  <2>2. Max(I) \in I /\ \A y \in I : y <= Max(I)
    BY <1>4, <1>5, MaxOfFinite
  <2> QED
    BY <1>2, <1>3, <1>5, <2>1, <2>2
<1>7. \A m, n \in I : Source(m) = Source(n)
  <2> DEFINE f == [m \in I |-> Source(m)]
  <2>1. ValuesOn(f, I) = {Source(m) : m \in I}
    BY DEF ValuesOn
  <2>2. \A m, n \in I : f[m] = f[n]
    <3> HIDE DEF f
    <3> QED
      BY <1>2, <1>4, <2>1, OneValue
  <2> QED
    BY <2>2
<1> DEFINE s == Source(i)  x == Before[i][s]
           Part(m) == ShiftedBy(Piece(m)[1], Piece(m)[2], x)
<1>8. /\ Code[i].op \in {"ror", "lsr"} /\ s = Code[i].a /\ Piece(i) = <<Code[i].op, Code[i].n>>
      /\ \A m \in {j, k} : /\ Code[m].op = "eor_sh" /\ s = Code[m].b
                           /\ Piece(m) = <<Code[m].kind, Code[m].n>>
  <2>1. Code[i].op \in {"ror", "lsr"} /\ Code[j].op = "eor_sh" /\ Code[k].op = "eor_sh"
    BY <1>2 DEF IsSeed, IsStep, OpAt
  <2>2. ~IsSeed(j) /\ ~IsSeed(k)
    BY <2>1 DEF IsSeed
  <2>3. Source(j) = s /\ Source(k) = s
    BY <1>7
  <2> QED
    BY <1>2, <2>1, <2>2, <2>3 DEF Source, Piece
<1>9. s \in Regs /\ Code[j].a \in Regs /\ Code[k].a \in Regs
  BY <1>3, <1>8, CodeIsTyped
<1>10. Before[j][s] = x /\ Before[k][s] = x
  <2>1. /\ i \in 1..Len(Code) + 1 /\ j \in 1..Len(Code) + 1 /\ k \in 1..Len(Code) + 1
        /\ i <= j /\ i <= k
        /\ \A m \in i..j - 1 : m \in i..k - 1
    BY <1>2, <1>3
  <2>2. \A m \in i..k - 1 : ~Writes(m, s)
    BY <1>2 DEF Steady
  <2>3. Before[j][s] = x
    BY <1>9, <2>1, <2>2, Kept
  <2>4. Before[k][s] = x
    BY <1>9, <2>1, <2>2, Kept
  <2> QED
    BY <2>3, <2>4
<1>11. Wrote(i) = Part(i)
  <2>1. Wrote(i) = ShiftedBy(Code[i].op, Code[i].n, Before[i][Code[i].a])
    BY <1>3, <1>8, Written, Operations
  <2> QED
    BY <1>8, <2>1
<1>12. Wrote(j) = Xor(Part(i), Part(j))
  <2>1. Wrote(j) = Xor(Before[j][Code[j].a], ShiftedBy(Code[j].kind, Code[j].n, Before[j][Code[j].b]))
    BY <1>3, <1>8, Written, Operations
  <2>2. Before[j][Code[j].a] = Wrote(i)
    BY <1>2, <1>3, <1>9, HeldFromLastWriter
  <2> QED
    BY <1>8, <1>10, <1>11, <2>1, <2>2
<1>13. Wrote(k) = Xor(Xor(Part(i), Part(j)), Part(k))
  <2>1. Wrote(k) = Xor(Before[k][Code[k].a], ShiftedBy(Code[k].kind, Code[k].n, Before[k][Code[k].b]))
    BY <1>3, <1>8, Written, Operations
  <2>2. Before[k][Code[k].a] = Wrote(j)
    BY <1>2, <1>3, <1>9, HeldFromLastWriter
  <2> QED
    BY <1>8, <1>10, <1>12, <2>1, <2>2
<1>14. Algebra(I)
  <2> DEFINE P == [m \in I |-> Part(m)]
  <2>1. P[i] = Part(i) /\ P[j] = Part(j) /\ P[k] = Part(k) /\ DOMAIN P = {i, j, k}
    BY <1>5
  <2> HIDE DEF P, Part
  <2>2. XorAll(P) = Xor(Xor(P[i], P[j]), P[k])
    <3>1. OnThree(P, i, j, k)
      BY <1>5, <2>1 DEF OnThree
    <3> QED
      BY <3>1, XorOfThree
  <2>3. XorAll(P) = Wrote(Max(I))
    BY <1>6, <1>13, <2>1, <2>2
  <2> USE DEF P, Part
  <2> QED
    BY <1>6, <2>3 DEF Algebra
<1>15. Max(I) - Min(I) <= Span
  BY <1>2, <1>3, <1>6 DEF IdiomAssumption
<1>16. Fits(I)
  BY <1>1, <1>2, <1>14 DEF Fits
<1>17. I \in Triples({m \in Idx : IsSeed(m) \/ IsStep(m)})
  <2>1. I \subseteq {m \in Idx : IsSeed(m) \/ IsStep(m)}
    BY <1>1, <1>2, <1>5
  <2> QED
    BY <1>1, <2>1 DEF Triples
<1> QED
  BY <1>7, <1>15, <1>16, <1>17 DEF Ungrouped

(* What was emitted depends on the recorded code alone.                    *)
LEMMA EmittedStays ==
  ASSUME recording' = recording
  PROVE  /\ EmittedCh' = EmittedCh /\ EmittedSigma' = EmittedSigma /\ Code' = Code
         /\ \A I : Fold(I)' = Fold(I)
<1>1. Code' = Code /\ Idx' = Idx
  BY DEF Code, Idx
<1>2. \A i, r, op : /\ OpAt(i, op)' = OpAt(i, op) /\ Reads(i, r)' = Reads(i, r)
                    /\ OtherThan(i, r)' = OtherThan(i, r) /\ LastWriter(i, r)' = LastWriter(i, r)
  BY <1>1 DEF OpAt, Reads, OtherThan, LastWriter, Writes
<1>3. \A i, k, r : /\ IsSeed(i)' = IsSeed(i) /\ IsStep(i)' = IsStep(i) /\ Source(i)' = Source(i)
                   /\ Piece(i)' = Piece(i) /\ Steady(i, k, r)' = Steady(i, k, r)
  BY <1>1, <1>2 DEF IsSeed, IsStep, Source, Piece, Steady, Writes
<1>4. EmittedCh' = EmittedCh
  BY <1>1, <1>2 DEF EmittedCh
<1>5. EmittedSigma' = EmittedSigma
  <2>1. Triples(Idx') = Triples(Idx) /\ \A k : Code'[k].a = Code[k].a
    BY <1>1
  <2>2. \A I : /\ {Source(m)' : m \in I} = {Source(m) : m \in I}
               /\ {Piece(m)' : m \in I} = {Piece(m) : m \in I}
    BY <1>3
  <2> DEFINE Link(I, i, j, k) ==
           /\ i < j /\ j < k /\ j - i <= Gap /\ k - j <= Gap
           /\ IsSeed(i) /\ IsStep(j) /\ IsStep(k)
           /\ Cardinality({Source(m) : m \in I}) = 1 /\ Steady(i, k - 1, Source(i))
           /\ LastWriter(j, Code[j].a) = i /\ LastWriter(k, Code[k].a) = j
           /\ {Piece(m) : m \in I} \in Templates
         Chain(I) == \E i, j, k \in I : Link(I, i, j, k)
  <2>3. \A I : Chain(I)' <=> Chain(I)
    <3>1. ASSUME NEW I, NEW i \in I, NEW j \in I, NEW k \in I
          PROVE  Link(I, i, j, k)' <=> Link(I, i, j, k)
      <4>1. /\ Steady(i, k - 1, Source(i))' <=> Steady(i, k - 1, Source(i))
            /\ LastWriter(j, Code[j].a)' = LastWriter(j, Code[j].a)
            /\ LastWriter(k, Code[k].a)' = LastWriter(k, Code[k].a)
        BY <1>1, <1>3 DEF Steady, LastWriter, Writes
      <4>2. IsSeed(i)' <=> IsSeed(i)
        BY <1>3
      <4>3. (IsStep(j)' <=> IsStep(j)) /\ (IsStep(k)' <=> IsStep(k))
        BY <1>3
      <4>4. Cardinality({Source(m) : m \in I})' = Cardinality({Source(m) : m \in I})
        BY <2>2
      <4>5. {Piece(m) : m \in I}' = {Piece(m) : m \in I}
        BY <2>2
      <4> QED
        BY <4>1, <4>2, <4>3, <4>4, <4>5
    <3> HIDE DEF Link
    <3> QED
      BY <3>1
  <2>4. EmittedSigma = {I \in Triples(Idx) : Chain(I)}
    BY DEF EmittedSigma
  <2>5. EmittedSigma' = {I \in Triples(Idx') : Chain(I)'}
    BY DEF EmittedSigma
  <2> HIDE DEF Chain
  <2> QED
    BY <2>1, <2>3, <2>4, <2>5
<1>6. \A I : Fold(I)' = Fold(I)
  BY <1>1 DEF Fold, Places
<1> QED
  BY <1>1, <1>4, <1>5, <1>6

(* The ledger has what the passes run so far have to find, and a fold is   *)
(* told by its places.                                                     *)
PassNames == DOMAIN Layer0 \union {"ch", "maj", "triton", "sigma"}
FoldShaped(found) ==
    \A c \in found : c.layer = "fold" => c = [layer |-> "fold", places |-> c.places]
FoundInv ==
    /\ Recorded
    /\ passes \in Seq(PassNames)
    /\ FoldShaped(BagToSet(claims))
    /\ IdiomsFound

\* A pass that finds its idioms, and folds told by their places, keeps what
\* the passes before it had to find.
LEMMA PassFinds ==
  ASSUME FoundInv, NEW name \in PassNames, NEW found, NEW links, RunPass(name, found, links),
         FoldShaped(found),
         name = "ch" => \A i \in EmittedCh : \E c \in found : c.layer = "ch" /\ c.at = Code[i + 2].pc,
         name = "sigma" => \A I \in EmittedSigma : Fold(I) \in BagToSet(claims) \union found
  PROVE  FoundInv'
<1>1. /\ recording' = recording /\ passes' = Append(passes, name)
      /\ BagToSet(claims') = BagToSet(claims) \union found
  <2>1. claims' = claims (+) SetToBag(found) /\ recording' = recording /\ passes' = Append(passes, name)
    BY DEF RunPass
  <2>2. DOMAIN (claims (+) SetToBag(found)) = DOMAIN claims \union found
    BY BagPlusSet
  <2> QED
    BY <2>1, <2>2 DEF BagToSet
<1>2. Recorded' /\ passes' \in Seq(PassNames)
  BY <1>1 DEF FoundInv, Recorded
<1>3. FoldShaped(BagToSet(claims'))
  BY <1>1 DEF FoundInv, FoldShaped
<1>4. \A e : Contains(passes', e) => Contains(passes, e) \/ e = name
  <2>1. passes \in Seq(PassNames)
    BY DEF FoundInv
  <2> QED
    BY <1>1, <2>1 DEF Contains
<1>5. Contains(passes', "ch") =>
        \A i \in EmittedCh : \E c \in BagToSet(claims') : c.layer = "ch" /\ c.at = Code[i + 2].pc
  <2>1. CASE Contains(passes, "ch")
    BY <1>1, <2>1 DEF FoundInv, IdiomsFound
  <2>2. CASE name = "ch"
    BY <1>1, <2>2
  <2> QED
    BY <1>4, <2>1, <2>2
<1>6. Contains(passes', "sigma") => \A I \in EmittedSigma : Fold(I) \in BagToSet(claims')
  <2>1. CASE Contains(passes, "sigma")
    BY <1>1, <2>1 DEF FoundInv, IdiomsFound
  <2>2. CASE name = "sigma"
    BY <1>1, <2>2
  <2> QED
    BY <1>4, <2>1, <2>2
<1>7. IdiomsFound'
  BY <1>1, <1>5, <1>6, EmittedStays DEF IdiomsFound
<1> QED
  BY <1>2, <1>3, <1>7 DEF FoundInv

(* For every program, whatever its registers hold and in whatever order    *)
(* the passes run: each Ch of the three-instruction form is claimed once   *)
(* the Ch pass has run, and each sigma chain once the sigma pass has       *)
(* (_handler_verify.py:515-575, :1372-1540).                               *)
THEOREM IdiomsAreFound == IdiomSpec => []IdiomsFound
<1> USE IdiomAssumption
<1>1. IdiomInit => FoundInv
  <2> SUFFICES ASSUME IdiomInit PROVE FoundInv
    OBVIOUS
  <2>1. Recorded /\ passes = <<>> /\ BagToSet(claims) = {}
    BY DEF IdiomInit, Recorded, EmptyBag, SetToBag, BagToSet
  <2>2. ~Contains(passes, "ch") /\ ~Contains(passes, "sigma") /\ passes \in Seq(PassNames)
    BY <2>1 DEF Contains
  <2> QED
    BY <2>1, <2>2 DEF FoundInv, FoldShaped, IdiomsFound
<1>2. ASSUME FoundInv, [IdiomNext]_idiomVars
      PROVE  FoundInv'
  <2>1. Recorded
    BY <1>2 DEF FoundInv
  <2>2. ASSUME NEW layer \in DOMAIN Layer0, RunPass(layer, Scan(layer), {})
        PROVE  FoundInv'
    <3>1. layer \in PassNames /\ layer # "ch" /\ layer # "sigma" /\ layer # "fold"
      BY <2>2 DEF Layer0, PassNames
    <3>2. FoldShaped(Scan(layer))
      BY <3>1 DEF Scan, Claim, FoldShaped
    <3> QED
      BY <1>2, <2>2, <3>1, <3>2, PassFinds
  <2>3. CASE ChPass
    <3>1. RunPass("ch", ChScan, {}) /\ "ch" \in PassNames /\ "ch" # "sigma"
      BY <2>3 DEF ChPass, PassNames
    <3>2. FoldShaped(ChScan)
      BY DEF ChScan, Claim, FoldShaped
    <3>3. \A i \in EmittedCh : \E c \in ChScan : c.layer = "ch" /\ c.at = Code[i + 2].pc
      <4>1. ASSUME NEW i \in EmittedCh
            PROVE  \E c \in ChScan : c.layer = "ch" /\ c.at = Code[i + 2].pc
        <5>1. i \in ChWindows
          BY <2>1, EmittedChIsMatched
        <5>2. Claim("ch", {Code[i + 2].pc}, Code[i + 2].pc) \in ChScan
          BY <5>1 DEF ChScan
        <5> QED
          BY <5>2 DEF Claim
      <4> QED
        BY <4>1
    <3> QED
      BY <1>2, <3>1, <3>2, <3>3, PassFinds
  <2>4. CASE MajPass
    <3>1. RunPass("maj", MajScan, {}) /\ "maj" \in PassNames /\ "maj" # "sigma" /\ "maj" # "ch"
      BY <2>4 DEF MajPass, PassNames
    <3>2. FoldShaped(MajScan)
      BY DEF MajScan, Claim, FoldShaped
    <3> QED
      BY <1>2, <3>1, <3>2, PassFinds
  <2>5. CASE TritonPass
    <3>1. PICK available \in BOOLEAN : RunPass("triton", IF available THEN TritonScan ELSE {}, {})
      BY <2>5 DEF TritonPass
    <3>2. "triton" \in PassNames /\ "triton" # "sigma" /\ "triton" # "ch"
      BY DEF PassNames
    <3>3. FoldShaped(TritonScan) /\ FoldShaped({})
      BY DEF TritonScan, Claim, FoldShaped
    <3>4. FoldShaped(IF available THEN TritonScan ELSE {})
      BY <3>3
    <3> QED
      BY <1>2, <3>1, <3>2, <3>4, PassFinds
  <2>6. CASE SigmaPass
    <3>1. RunPass("sigma", SigmaScan, Linked) /\ "sigma" \in PassNames /\ "sigma" # "ch"
      BY <2>6 DEF SigmaPass, PassNames
    <3>2. FoldShaped(SigmaScan)
      BY DEF SigmaScan, Fold, FoldShaped
    <3>3. \A I \in EmittedSigma : Fold(I) \in BagToSet(claims) \union SigmaScan
      <4>1. ASSUME NEW I \in EmittedSigma
            PROVE  Fold(I) \in BagToSet(claims) \union SigmaScan
        <5>1. I \in Ungrouped
          BY <2>1, EmittedSigmaIsFound
        <5>2. CASE Fresh(I)
          BY <5>1, <5>2 DEF SigmaScan
        <5>3. CASE ~Fresh(I)
          <6>1. PICK c \in BagToSet(claims) : c.layer = "fold" /\ c.places = Places(I)
            BY <5>3 DEF Fresh, Folded
          <6>2. c = [layer |-> "fold", places |-> Places(I)]
            BY <1>2, <6>1 DEF FoundInv, FoldShaped
          <6> QED
            BY <6>1, <6>2 DEF Fold
        <5> QED
          BY <5>2, <5>3
      <4> QED
        BY <4>1
    <3> QED
      BY <1>2, <3>1, <3>2, <3>3, PassFinds
  <2>7. CASE UNCHANGED idiomVars
    <3>1. recording' = recording /\ claims' = claims /\ passes' = passes
      BY <2>7 DEF idiomVars
    <3> QED
      BY <1>2, <3>1, EmittedStays DEF FoundInv, Recorded, FoldShaped, IdiomsFound
  <2> QED
    BY <1>2, <2>2, <2>3, <2>4, <2>5, <2>6, <2>7 DEF IdiomNext, Layer0Pass
<1>3. FoundInv => IdiomsFound
  BY DEF FoundInv
<1> QED
  BY <1>1, <1>2, <1>3, PTL DEF IdiomSpec

-----------------------------------------------------------------------------
(* DerivedFindings.                                                        *)

(* What a pass promotes under subjects that have no finding yet, one row a *)
(* subject, leaves every subject with one finding.                         *)
LEMMA PromotedOnce ==
  ASSUME AggregatedOnce, NEW name, NEW S, Promote(name, S),
         \A r, s \in S : <<r.kind, r.subject>> = <<s.kind, s.subject>> => r = s
  PROVE  AggregatedOnce'
<1> DEFINE new == {r \in S : Unreported(r)}
           sum == derived (+) SetToBag(new)
<1>1. /\ DOMAIN sum = DOMAIN derived \union new
      /\ \A e \in DOMAIN derived \ new : derived[e] = 1 => sum[e] = 1
      /\ \A e \in new \ DOMAIN derived : sum[e] = 1
  BY BagPlusSet
<1>2. derived' = sum
  BY DEF Promote
<1>3. /\ \A r \in DOMAIN derived : derived[r] = 1
      /\ \A r, s \in DOMAIN derived : <<r.kind, r.subject>> = <<s.kind, s.subject>> => r = s
  BY DEF AggregatedOnce, BagToSet
<1>4. \A r \in new, s \in DOMAIN derived : <<r.kind, r.subject>> # <<s.kind, s.subject>>
  BY DEF Unreported, Subjects, BagToSet
<1>5. \A r, s \in new : <<r.kind, r.subject>> = <<s.kind, s.subject>> => r = s
  OBVIOUS
<1> HIDE DEF new, sum
<1>6. \A r \in DOMAIN derived' : derived'[r] = 1
  BY <1>1, <1>2, <1>3, <1>4
<1>7. \A r, s \in DOMAIN derived' : <<r.kind, r.subject>> = <<s.kind, s.subject>> => r = s
  BY <1>1, <1>2, <1>3, <1>4, <1>5
<1> QED
  BY <1>6, <1>7 DEF AggregatedOnce, BagToSet

(* A pass has one row a subject.                                           *)
LEMMA OneRowASubject ==
  /\ \A r, s \in ModeRows : <<r.kind, r.subject>> = <<s.kind, s.subject>> => r = s
  /\ \A kind, says, T : \A r, s \in {Row(kind, t, says) : t \in T} :
        <<r.kind, r.subject>> = <<s.kind, s.subject>> => r = s
<1>1. \A r, s \in ModeRows : <<r.kind, r.subject>> = <<s.kind, s.subject>> => r = s
  <2>1. ASSUME NEW r \in ModeRows, NEW s \in ModeRows, r.subject = s.subject
        PROVE  r = s
    <3>1. PICK m \in DOMAIN Mode : r = Row("mode", <<m, Mode[m].applies \intersect Fitted>>, Verdict(m))
      BY <2>1 DEF ModeRows
    <3>2. PICK n \in DOMAIN Mode : s = Row("mode", <<n, Mode[n].applies \intersect Fitted>>, Verdict(n))
      BY <2>1 DEF ModeRows
    <3>3. m = n
      BY <2>1, <3>1, <3>2 DEF Row
    <3> QED
      BY <3>1, <3>2, <3>3
  <2> QED
    BY <2>1
<1>2. \A kind, says, T : \A r, s \in {Row(kind, t, says) : t \in T} :
        <<r.kind, r.subject>> = <<s.kind, s.subject>> => r = s
  BY DEF Row
<1> QED
  BY <1>1, <1>2

(* For every set of templates, modes and recordings: however the passes,   *)
(* the refit and the rescan are interleaved, every fit says what has been  *)
(* found by then and an aggregate has one finding (_algorithm.py).         *)
THEOREM FindingsSettle == DerivedSpec => []DerivedIsSettled
<1>1. DerivedInit => DerivedIsSettled
  BY DEF DerivedInit, DerivedIsSettled, FitsAreCurrent, AggregatedOnce, BagToSet, EmptyBag, SetToBag
<1>2. ASSUME DerivedIsSettled, [DerivedNext]_derivedVars
      PROVE  DerivedIsSettled'
  <2>1. AggregatedOnce'
    <3>1. CASE UNCHANGED derived
      BY <1>2, <3>1 DEF DerivedIsSettled, AggregatedOnce
    <3>2. CASE ModePass
      BY <1>2, <3>2, PromotedOnce, OneRowASubject DEF DerivedIsSettled, ModePass
    <3>3. ASSUME NEW name, NEW kind, NEW says, NEW T,
                 Promote(name, {Row(kind, t, says) : t \in T})
          PROVE  AggregatedOnce'
      <4> DEFINE S == {Row(kind, t, says) : t \in T}
      <4>1. \A r, s \in S : <<r.kind, r.subject>> = <<s.kind, s.subject>> => r = s
        BY OneRowASubject
      <4> HIDE DEF S
      <4> QED
        BY <1>2, <3>3, <4>1, PromotedOnce DEF DerivedIsSettled, S
    <3>4. ASSUME NEW name, Promote(name, {})
          PROVE  AggregatedOnce'
      BY <1>2, <3>4, PromotedOnce DEF DerivedIsSettled
    <3>5. CASE TablePass
      <4> DEFINE T == {u \in Tables : Cardinality(LoadsOf(u)) >= MinLoads}
      <4>1. Promote("table", {Row("table", t, "found") : t \in T})
        BY <3>5 DEF TablePass
      <4> HIDE DEF T
      <4> QED
        BY <3>3, <4>1
    <3>6. CASE TimelinePass
      <4>1. CASE Promote("timeline", {})
        BY <3>4, <4>1
      <4>2. ASSUME NEW says, Promote("timeline", {Row("timeline", Ordering, says)})
            PROVE  AggregatedOnce'
        BY <1>2, <4>2, PromotedOnce DEF DerivedIsSettled
      <4> QED
        BY <3>6, <4>1, <4>2 DEF TimelinePass
    <3>7. CASE ArtifactPass
      <4> DEFINE T == {<<w.at, w.size>> : w \in Artifacts}
      <4>1. CASE Promote("artifacts", {})
        BY <3>4, <4>1
      <4>2. CASE Promote("artifacts", {Row("artifact", <<w.at, w.size>>, "candidate") : w \in Artifacts})
        <5>1. {Row("artifact", <<w.at, w.size>>, "candidate") : w \in Artifacts}
                = {Row("artifact", t, "candidate") : t \in T}
          OBVIOUS
        <5>2. Promote("artifacts", {Row("artifact", t, "candidate") : t \in T})
          BY <4>2, <5>1
        <5> HIDE DEF T
        <5> QED
          BY <3>3, <5>2
      <4> QED
        BY <3>7, <4>1, <4>2 DEF ArtifactPass
    <3> QED
      BY <1>2, <3>1, <3>2, <3>5, <3>6, <3>7
      DEF DerivedNext, AnchorFound, FitPass, Refit, Refitted, Rescan, derivedVars
  <2>2. FitsAreCurrent'
    <3>1. CASE UNCHANGED derivedVars
      BY <1>2, <3>1 DEF DerivedIsSettled, FitsAreCurrent, Enough, Seen, derivedVars
    <3>2. CASE last' \notin {"refit", "rescan"}
      BY <3>2 DEF FitsAreCurrent
    <3>3. ASSUME NEW io, Refit(io)
          PROVE  FitsAreCurrent'
      <4>1. ASSUME NEW a \in Algos, Enough(a)
            PROVE  fits'[a].seen = Seen(a)
        <5>1. CASE a \in {b \in Fitted : Shifted(b)} \union NewFits(fits)
          BY <3>3, <5>1 DEF Refit, Refitted
        <5>2. CASE a \notin {b \in Fitted : Shifted(b)} \union NewFits(fits)
          <6>1. fits'[a] = fits[a]
            BY <3>3, <5>2 DEF Refit, Refitted
          <6> QED
            BY <4>1, <5>2, <6>1 DEF NewFits, Fitted, Shifted
        <5> QED
          BY <5>1, <5>2
      <4>2. anchors' = anchors
        BY <3>3 DEF Refit, Refitted
      <4> QED
        BY <4>1, <4>2 DEF FitsAreCurrent, Enough, Seen, Algos
    <3>4. ASSUME NEW found, NEW io, Rescan(found, io), Lacking # {}
          PROVE  FitsAreCurrent'
      <4> DEFINE seen(a) == Template[a].anchors \intersect anchors'
                 stale == {a \in Algos : Cardinality(seen(a)) >= Template[a].min
                                         /\ fits[a].seen # seen(a)}
      <4>1. fits' = [a \in Algos |-> IF a \in stale THEN [seen |-> seen(a), io |-> io[a]] ELSE fits[a]]
        BY <3>4 DEF Rescan
      <4>2. ASSUME NEW a \in Algos, Cardinality(seen(a)) >= Template[a].min
            PROVE  fits'[a].seen = seen(a)
        BY <4>1, <4>2
      <4> QED
        BY <4>2 DEF FitsAreCurrent, Enough, Seen, Algos
    <3> QED
      BY <1>2, <3>1, <3>2, <3>3, <3>4
      DEF DerivedNext, AnchorFound, FitPass, Rescan, Step, Promote,
          ModePass, TablePass, TimelinePass, ArtifactPass
  <2> QED
    BY <2>1, <2>2 DEF DerivedIsSettled
<1> QED
  BY <1>1, <1>2, PTL DEF DerivedSpec
-----------------------------------------------------------------------------
(* SymexDrive.                                                             *)

(* What the vectors V of an accepted transform show: enough of them, each  *)
(* of an input and an execution of its own, and outputs that differ.       *)
Foreign(V) == {v \in V : ~v.derived /\ v.exec # Self}
EnoughInputs(V) ==
    \E W \in SUBSET {v \in Foreign(V) : v.observed = v.predicted} :
        /\ Cardinality(W) >= MinVectors
        /\ \A v, w \in W : v # w => v.key # w.key /\ (v.exec # w.exec \/ v.exec = NoExec)
EnoughOutputs(V) ==
    LET witnessed == {v \in Foreign(V) : v.exec # NoExec}
        claimed == {v.key : v \in Foreign(V) \ witnessed}
    IN  (\E v \in witnessed : v.key \notin claimed) =>
           Cardinality({v.observed : v \in witnessed}) >= MinVectors

(* Two counted vectors are of two inputs.                                  *)
LEMMA CountedKeysDiffer ==
  ASSUME NEW vectors, NEW n \in Nat, DOMAIN vectors = 1..n,
         NEW i \in Counted(vectors), NEW j \in Counted(vectors), i # j
  PROVE  vectors[i].key # vectors[j].key
<1>1. i \in 1..n /\ j \in 1..n /\ ~Derived(vectors[i]) /\ ~Derived(vectors[j])
  BY DEF Counted
<1>2. i < j => i \in 1..j - 1
  BY <1>1
<1>3. j < i => j \in 1..i - 1
  BY <1>1
<1>4. i < j \/ j < i
  BY <1>1
<1> QED
  BY <1>1, <1>2, <1>3, <1>4 DEF Counted

\* EXACT parity rests on enough inputs, no two of one execution.
LEMMA ExactHasInputs ==
  ASSUME NEW vectors, NEW n \in Nat, DOMAIN vectors = 1..n,
         ParityVerdict(vectors) = "EXACT"
  PROVE  EnoughInputs(ToSet(vectors))
<1> DEFINE W == {vectors[i] : i \in Matching(vectors)}
<1>1. Cardinality(Matching(vectors)) >= MinVectors /\ Deterministic(vectors)
  BY DEF ParityVerdict
<1>2. Matching(vectors) \subseteq Counted(vectors) /\ Counted(vectors) \subseteq 1..n
  BY DEF Matching, Counted
<1>3. IsFiniteSet(Matching(vectors))
  <2>1. IsFiniteSet(1..n)
    BY UpToIsFinite
  <2> QED
    BY <1>2, <2>1, SubsetIsFinite
<1>4. \A i, j \in Matching(vectors) : vectors[i] = vectors[j] => i = j
  BY <1>2, CountedKeysDiffer
<1>5. Cardinality(W) >= MinVectors
  BY <1>1, <1>3, <1>4, ImageIsAsLarge
<1>6. W \in SUBSET {v \in Foreign(ToSet(vectors)) : v.observed = v.predicted}
  BY <1>2 DEF ToSet, Matching, Counted, Derived, Foreign
<1>7. \A v, w \in W : v # w => v.key # w.key /\ (v.exec # w.exec \/ v.exec = NoExec)
  <2>1. ASSUME NEW i \in Matching(vectors), NEW j \in Matching(vectors),
               vectors[i] # vectors[j]
        PROVE  /\ vectors[i].key # vectors[j].key
               /\ vectors[i].exec # vectors[j].exec \/ vectors[i].exec = NoExec
    <3>1. i # j /\ i \in Counted(vectors) /\ j \in Counted(vectors)
      BY <1>2, <2>1
    <3>2. vectors[i].key # vectors[j].key
      BY <3>1, CountedKeysDiffer
    <3>3. vectors[i].exec # vectors[j].exec \/ vectors[i].exec = NoExec
      BY <1>1, <3>1 DEF Deterministic, Evidenced
    <3> QED
      BY <3>2, <3>3
  <2> QED
    BY <2>1
<1> HIDE DEF W
<1> QED
  BY <1>5, <1>6, <1>7 DEF EnoughInputs

(* The vectors of one input start with one that counts.                    *)
LEMMA FirstOfInputCounts ==
  ASSUME NEW vectors, NEW n \in Nat, DOMAIN vectors = 1..n,
         NEW k \in 1..n, ~Derived(vectors[k])
  PROVE  \E i \in Counted(vectors) : vectors[i].key = vectors[k].key
<1> DEFINE same == {i \in 1..n : ~Derived(vectors[i]) /\ vectors[i].key = vectors[k].key}
<1>1. k \in same /\ same \subseteq 1..n
  OBVIOUS
<1>2. PICK i \in same : \A j \in same : i <= j
  <2>1. IsFiniteSet(1..n)
    BY UpToIsFinite
  <2> HIDE DEF same
  <2>2. IsFiniteSet(same)
    BY <1>1, <2>1, SubsetIsFinite
  <2>3. same \in SUBSET Int /\ same # {}
    BY <1>1
  <2> QED
    BY <2>2, <2>3, MinOfFinite
<1>3. i \in 1..n /\ ~Derived(vectors[i]) /\ vectors[i].key = vectors[k].key
  OBVIOUS
<1>4. \A j \in 1..i - 1 : ~Derived(vectors[j]) => vectors[j].key # vectors[i].key
  <2>1. ASSUME NEW j \in 1..i - 1
        PROVE  j \in 1..n /\ ~(i <= j)
    BY <1>3, <2>1
  <2>2. \A j \in 1..i - 1 : j \notin same
    BY <1>2, <2>1
  <2> QED
    BY <1>3, <2>1, <2>2
<1> QED
  BY <1>3, <1>4 DEF Counted

\* EXACT parity rests on enough different outputs once one was observed elsewhere.
LEMMA ExactHasOutputs ==
  ASSUME NEW vectors, NEW n \in Nat, DOMAIN vectors = 1..n,
         ParityVerdict(vectors) = "EXACT"
  PROVE  EnoughOutputs(ToSet(vectors))
<1> DEFINE V == ToSet(vectors)
           witnessed == {v \in Foreign(V) : v.exec # NoExec}
           claimed == {v.key : v \in Foreign(V) \ witnessed}
           outputs == {v.observed : v \in witnessed}
           places == {i \in 1..n : ~Derived(vectors[i]) /\ vectors[i].exec # NoExec}
<1>1. SUFFICES ASSUME NEW v \in witnessed, v.key \notin claimed
               PROVE  Cardinality(outputs) >= MinVectors
  BY DEF EnoughOutputs
<1>2. Evidenced(vectors) # {}
  <2>1. PICK k \in 1..n : v = vectors[k]
    BY DEF ToSet, Foreign
  <2>2. ~Derived(vectors[k])
    BY <1>1, <2>1 DEF Derived, Foreign
  <2>3. PICK i \in Counted(vectors) : vectors[i].key = v.key
    BY <2>1, <2>2, FirstOfInputCounts
  <2>4. vectors[i].exec # NoExec
    BY <1>1, <2>3 DEF ToSet, Counted, Derived, Foreign
  <2> QED
    BY <2>3, <2>4 DEF Evidenced
<1>3. ~(Cardinality(Observed(vectors)) < MinVectors)
  BY <1>2 DEF ParityVerdict
<1>4. outputs = {vectors[i].observed : i \in places}
  BY DEF ToSet, Derived, Foreign
<1>5. IsFiniteSet(outputs)
  <2>1. IsFiniteSet(1..n)
    BY UpToIsFinite
  <2>2. places \subseteq 1..n
    OBVIOUS
  <2>3. IsFiniteSet(places)
    BY <2>1, <2>2, SubsetIsFinite
  <2> DEFINE f == [i \in places |-> vectors[i].observed]
  <2>4. IsFiniteSet({f[i] : i \in places})
    <3> HIDE DEF f
    <3> QED
      BY <2>3, ImageIsFinite
  <2> QED
    BY <1>4, <2>4
<1>6. Observed(vectors) \subseteq outputs
  BY <1>4 DEF Observed, Evidenced, Counted
<1> HIDE DEF outputs
<1>7. /\ Cardinality(Observed(vectors)) \in Nat /\ Cardinality(outputs) \in Nat
      /\ Cardinality(Observed(vectors)) <= Cardinality(outputs)
  BY <1>5, <1>6, PartIsNoLarger
<1> QED
  BY <1>3, <1>7, SymexAssumption

(* The backing of the window is a fact about the case.                     *)
LEMMA BackingIsTheCase == ASSUME setup' = setup PROVE BackingOk' = BackingOk
<1>1. Unbacked' = Unbacked
  BY DEF Unbacked, Latest, CaseWindow
<1> QED
  BY <1>1 DEF BackingOk, MemSteps, Idxs, Blind, StepUnbacked, CaseWindow

(* What a run is judged on is a list of vectors.                           *)
LEMMA VectorsAreListed ==
  ASSUME NEW gold \in Parities, NEW stated \in RunnerVectors, NEW runs \in CohortRuns
  PROVE  \E n \in Nat : DOMAIN (MainVectors(stated, gold) \o CohortVectors(runs)) = 1..n
<1> DEFINE main == MainVectors(stated, gold)
           bare == GoldVectors(gold)
           cohort1 == CohortVectors(runs)
           usable == {k \in DOMAIN runs : runs[k].usable}
           B == {bare[i] : i \in DOMAIN bare}
           S == ToSet(stated) \union B \union {cohort1[i] : i \in DOMAIN cohort1}
<1>1. bare \in Seq(B)
  <2>1. gold[2] \in Nat
    BY SymexAssumption DEF Parities
  <2>2. DOMAIN bare = 1..gold[2] /\ bare = [i \in 1..gold[2] |-> bare[i]]
    BY DEF GoldVectors
  <2> HIDE DEF bare
  <2> QED
    BY <2>1, <2>2
<1>2. Cardinality(usable) \in Nat
  <2>1. IsFiniteSet(DOMAIN runs)
    BY SymexAssumption
  <2>2. usable \subseteq DOMAIN runs
    OBVIOUS
  <2> QED
    BY <2>1, <2>2, PartIsNoLarger
<1>3. DOMAIN cohort1 = 1..Cardinality(usable)
      /\ cohort1 = [i \in 1..Cardinality(usable) |-> cohort1[i]]
  BY DEF CohortVectors
<1>4. stated \in Seq(ToSet(stated))
  BY SymexAssumption
<1>5. main \in Seq(S)
  <2>1. main = stated \/ main = bare
    BY DEF MainVectors
  <2> HIDE DEF main, bare, B, cohort1
  <2> QED
    BY <1>1, <1>4, <2>1
<1> HIDE DEF main, bare, B, cohort1, usable
<1>6. cohort1 \in Seq(S)
  BY <1>2, <1>3
<1> HIDE DEF S
<1>7. main \o cohort1 \in Seq(S)
  BY <1>5, <1>6, ConcatProperties
<1>8. DOMAIN (main \o cohort1) = 1..Len(main \o cohort1) /\ Len(main \o cohort1) \in Nat
  BY <1>7, LenProperties
<1> QED
  BY <1>8 DEF main, cohort1

(* What an accepted result rests on.                                       *)
RunGrounded ==
    result.ok => /\ result.emitted /\ result.check # "BLOCK"
                 /\ EnoughInputs(ToSet(result.vectors)) /\ EnoughOutputs(ToSet(result.vectors))

\* An accepted symbolic run has the evidence a closure needs.
LEMMA RunsAreGrounded == ASSUME NEW next, RunOnce(next) PROVE RunGrounded'
<1>1. SUFFICES ASSUME result'.ok PROVE RunGrounded'
  BY DEF RunGrounded
<1>2. PICK unmodeled \in BOOLEAN, forwards \in {0, 1}, gold \in Parities, check \in Checks,
           stated \in RunnerVectors, runs \in CohortRuns :
         result' = EmittedRun(Unemitted(unmodeled, forwards), gold, check,
                              MainVectors(stated, gold) \o CohortVectors(runs))
  BY <1>1 DEF RunOnce, Unemitted, NoRun
<1> DEFINE vectors == MainVectors(stated, gold) \o CohortVectors(runs)
<1>3. PICK n \in Nat : DOMAIN vectors = 1..n
  BY VectorsAreListed
<1> HIDE DEF vectors
<1>4. result' = EmittedRun(Unemitted(unmodeled, forwards), gold, check, vectors)
  BY <1>2 DEF vectors
<1>5. ParityVerdict(vectors) = "EXACT" /\ check # "BLOCK"
  BY <1>1, <1>4 DEF EmittedRun, Unemitted, NoRun
<1>6. result'.emitted /\ result'.check # "BLOCK" /\ result'.vectors = vectors
  BY <1>4, <1>5 DEF EmittedRun, Unemitted, NoRun
<1>7. EnoughInputs(ToSet(result'.vectors)) /\ EnoughOutputs(ToSet(result'.vectors))
  BY <1>3, <1>5, <1>6, ExactHasInputs, ExactHasOutputs
<1> QED
  BY <1>6, <1>7 DEF RunGrounded, EnoughInputs, EnoughOutputs, Foreign

(* A drive that has passed a judgment keeps it until it is driven again,   *)
(* what it takes for backed is, and it concludes once.                     *)
SymexInv ==
    /\ {"alias", "static"} \subseteq DOMAIN answers
    /\ backed => BackingOk
    /\ RunGrounded
    /\ at \in {"static", "ask_static", "symex", "check"} /\ ~setup.systematic => answers.alias
    /\ at \in {"symex", "check"} /\ ~setup.systematic => answers.static
    /\ conclusion.closed => at = "done"
    /\ ClosedIsGrounded

(* A step before the end that leaves the run alone has only to see to the  *)
(* judgments.                                                              *)
LEMMA JudgmentsSuffice ==
  ASSUME SymexInv, UNCHANGED <<setup, backed, result, conclusion>>, at # "done",
         {"alias", "static"} \subseteq DOMAIN answers',
         at' \in {"static", "ask_static", "symex", "check"} /\ ~setup.systematic => answers'.alias,
         at' \in {"symex", "check"} /\ ~setup.systematic => answers'.static
  PROVE  SymexInv'
<1>1. BackingOk' = BackingOk
  BY BackingIsTheCase
<1>2. ~conclusion'.closed
  BY DEF SymexInv
<1>3. RunGrounded'
  BY DEF SymexInv, RunGrounded
<1> QED
  BY <1>1, <1>2, <1>3 DEF SymexInv, ClosedIsGrounded

(* A window is closed only on a byte feed that was decided, on addresses   *)
(* that are backed, by a transform its own trace does not refute and that  *)
(* enough runs of other inputs confirm - for every case, cohort and number *)
(* of vectors asked for (setup_symex/_driver.py, _parity.py).              *)
THEOREM ClosuresAreGrounded == SymexSpec => []ClosedIsGrounded
<1>1. SymexInit => SymexInv
  BY DEF SymexInit, SymexInv, NoAnswers, NoRun, Unconcluded, RunGrounded, ClosedIsGrounded
<1>2. ASSUME SymexInv, [SymexNext]_symexVars
      PROVE  SymexInv'
  <2>1. CASE Begin
    BY <1>2, <2>1, BackingIsTheCase
    DEF SymexInv, Begin, Go, RunGrounded, ClosedIsGrounded
  <2>2. CASE MemInputs
    <3>1. UNCHANGED <<setup, backed, result, conclusion>> /\ at = "memory"
          /\ at' \in {"seed", "ask_mem"}
      BY <2>2 DEF MemInputs, Go, Pause
    <3>2. DOMAIN answers' = DOMAIN answers
      BY <2>2 DEF MemInputs, Pause
    <3> QED
      BY <1>2, <3>1, <3>2, JudgmentsSuffice DEF SymexInv
  <2>3. CASE SeedEntry
    BY <1>2, <2>3, BackingIsTheCase
    DEF SymexInv, SeedEntry, Go, RunGrounded, ClosedIsGrounded
  <2>4. CASE AliasGate
    <3>1. UNCHANGED <<setup, backed, result, conclusion>> /\ at = "alias"
          /\ at' \in {"static", "ask_alias"}
      BY <2>4 DEF AliasGate, Go, Pause
    <3>2. DOMAIN answers' = DOMAIN answers
      BY <2>4 DEF AliasGate, Pause
    <3>3. at' = "static" /\ ~setup.systematic => answers'.alias
      BY <1>2, <2>4 DEF AliasGate, Pause, Answered, SymexInv
    <3> QED
      BY <1>2, <3>1, <3>2, <3>3, JudgmentsSuffice DEF SymexInv
  <2>5. CASE StaticGate
    <3>1. UNCHANGED <<setup, backed, result, conclusion>> /\ at = "static"
          /\ at' \in {"symex", "ask_static"}
      BY <2>5 DEF StaticGate, Go, Pause
    <3>2. DOMAIN answers' = DOMAIN answers
      BY <2>5 DEF StaticGate, Pause
    <3>3. at' = "symex" /\ ~setup.systematic => answers'.static
      BY <1>2, <2>5 DEF StaticGate, Pause, Answered, SymexInv
    <3>4. answers'.alias = answers.alias
      BY <1>2, <2>5 DEF StaticGate, Pause, SymexInv
    <3> QED
      BY <1>2, <3>1, <3>2, <3>3, <3>4, JudgmentsSuffice DEF SymexInv
  <2>6. CASE Redrive
    BY <1>2, <2>6, BackingIsTheCase
    DEF SymexInv, Redrive, Go, NoRun, RunGrounded, ClosedIsGrounded
  <2>7. CASE Symex
    <3>1. RunGrounded'
      BY <1>2, <2>7, RunsAreGrounded DEF Symex, SymexInv, RunGrounded
    <3>2. at' = "check" /\ UNCHANGED <<setup, conclusion, answers, backed>>
      BY <2>7 DEF Symex, RunOnce, Go
    <3> QED
      BY <1>2, <2>7, <3>1, <3>2, BackingIsTheCase DEF Symex, SymexInv, ClosedIsGrounded
  <2>8. CASE Retry
    <3>1. RunGrounded'
      BY <2>8, RunsAreGrounded DEF Retry
    <3>2. at' = "check" /\ UNCHANGED <<setup, conclusion, answers, backed>>
      BY <2>8 DEF Retry, RunOnce, Go
    <3> QED
      BY <1>2, <2>8, <3>1, <3>2, BackingIsTheCase DEF Retry, SymexInv, ClosedIsGrounded
  <2>9. CASE Conclude
    <3>1. at' = "done" /\ at = "check" /\ UNCHANGED <<setup, answers, backed, result>>
          /\ conclusion'.closed = (Runs /\ result.ok)
      BY <2>9 DEF Conclude
    <3>2. BackingOk' = BackingOk
      BY <3>1, BackingIsTheCase
    <3>3. RunGrounded'
      BY <1>2, <3>1 DEF SymexInv, RunGrounded
    <3>4. ClosedIsGrounded'
      <4>1. SUFFICES ASSUME conclusion'.closed PROVE ClosedIsGrounded'
        BY DEF ClosedIsGrounded
      <4>2. backed /\ ~setup.systematic /\ result.ok
        BY <3>1, <4>1 DEF Runs
      <4>3. ~setup'.systematic /\ BackingOk' /\ answers'.alias /\ answers'.static /\ result'.ok
        BY <1>2, <3>1, <3>2, <4>2 DEF SymexInv
      <4> QED
        BY <3>3, <4>3 DEF ClosedIsGrounded, RunGrounded, EnoughInputs, EnoughOutputs, Foreign
    <3> QED
      BY <1>2, <3>1, <3>2, <3>3, <3>4 DEF SymexInv
  <2>10. CASE UNCHANGED symexVars
    BY <1>2, <2>10, BackingIsTheCase DEF SymexInv, symexVars, RunGrounded, ClosedIsGrounded
  <2> QED
    BY <1>2, <2>1, <2>2, <2>3, <2>4, <2>5, <2>6, <2>7, <2>8, <2>9, <2>10
    DEF SymexNext, DriveOver
<1>3. SymexInv => ClosedIsGrounded
  BY DEF SymexInv
<1> QED
  BY <1>1, <1>2, <1>3, PTL DEF SymexSpec
-----------------------------------------------------------------------------
(* CohortEvidence.                                                         *)

(* Finitely many members of a family show finitely many things.            *)
LEMMA ShownIsFinite ==
  ASSUME NEW L, IsFiniteSet(L), NEW f, \A k \in L : IsFiniteSet(f[k])
  PROVE  IsFiniteSet(UNION {f[k] : k \in L})
<1> DEFINE F == {f[k] : k \in L}
<1>1. IsFiniteSet(F)
  BY ImageIsFinite
<1>2. \A T \in F : IsFiniteSet(T)
  OBVIOUS
<1> HIDE DEF F
<1>3. IsFiniteSet(UNION F)
  BY <1>1, <1>2, UnionIsFinite
<1> QED
  BY <1>3 DEF F

(* What a part shows to differ, the whole shows to differ.                 *)
LEMMA MoreShowMore ==
  ASSUME NEW T, IsFiniteSet(T), NEW S, S \subseteq T, Cardinality(S) > 1
  PROVE  Cardinality(T) > 1
<1>1. /\ Cardinality(S) \in Nat /\ Cardinality(T) \in Nat
      /\ Cardinality(S) <= Cardinality(T)
  BY PartIsNoLarger
<1> QED
  BY <1>1

(* A bound that a part meets, the whole meets.                             *)
LEMMA WholeMeets ==
  ASSUME NEW T, IsFiniteSet(T), NEW S, S \subseteq T, NEW n \in Nat, ~(Cardinality(S) < n)
  PROVE  ~(Cardinality(T) < n)
<1>1. /\ Cardinality(S) \in Nat /\ Cardinality(T) \in Nat
      /\ Cardinality(S) <= Cardinality(T)
  BY PartIsNoLarger
<1> QED
  BY <1>1

(* A recording shows one value of an address, one address of a site.       *)
LEMMA OneEach ==
  /\ \A items, a : IsFiniteSet(LoadedValue(items, a))
  /\ \A items, pc, rw : IsFiniteSet(SiteAddress(items, pc, rw))
  /\ \A items, pc : IsFiniteSet(LoadAddress(items, pc))
<1>1. ASSUME NEW items, NEW a PROVE IsFiniteSet(LoadedValue(items, a))
  <2>1. LoadedValue(items, a) = {} \/ \E x : LoadedValue(items, a) = {x}
    BY DEF LoadedValue
  <2> QED
    BY <2>1, AtMostOneIsFinite
<1>2. ASSUME NEW items, NEW pc, NEW rw PROVE IsFiniteSet(SiteAddress(items, pc, rw))
  <2>1. SiteAddress(items, pc, rw) = {} \/ \E x : SiteAddress(items, pc, rw) = {x}
    BY Zenon DEF SiteAddress
  <2> QED
    BY <2>1, AtMostOneIsFinite
<1>3. ASSUME NEW items, NEW pc PROVE IsFiniteSet(LoadAddress(items, pc))
  <2>1. LoadAddress(items, pc) = {} \/ \E x : LoadAddress(items, pc) = {x}
    BY DEF LoadAddress
  <2> QED
    BY <2>1, AtMostOneIsFinite
<1> QED
  BY <1>1, <1>2, <1>3

JudgedVectors == {k \in DOMAIN cohort : MemObserved(MergedVector(cohort[k]))}
ShowingVectors(a) == {k \in JudgedVectors : LoadedValue(MergedVector(cohort[k]), a) # {}}

\* An input is symbolized when no gate stands and more than one value shows.
LEMMA SymbolizeMeans ==
  ASSUME NEW a
  PROVE  Disposition(a) = "symbolize" <=>
            /\ ~(Cardinality(JudgedVectors) < MinCohort)
            /\ ~(Cardinality({cohort[k].key : k \in DOMAIN cohort}) < MinKeys)
            /\ ~(Cardinality(ShowingVectors(a)) < MinCohort)
            /\ Cardinality(UNION {LoadedValue(MergedVector(cohort[k]), a) :
                                     k \in ShowingVectors(a)}) > 1
<1> DEFINE traces == [k \in DOMAIN cohort |-> MergedVector(cohort[k])]
<1>1. ComparedVectors(traces) = JudgedVectors
  BY DEF ComparedVectors, JudgedVectors
<1>2. {k \in ComparedVectors(traces) : LoadedValue(traces[k], a) # {}} = ShowingVectors(a)
  BY <1>1 DEF ShowingVectors, JudgedVectors
<1>3. \A k \in ShowingVectors(a) : traces[k] = MergedVector(cohort[k])
  BY DEF ShowingVectors, JudgedVectors
<1>4. UNION {LoadedValue(traces[k], a) : k \in ShowingVectors(a)}
        = UNION {LoadedValue(MergedVector(cohort[k]), a) : k \in ShowingVectors(a)}
  BY <1>3
<1> DEFINE seen == {k \in ComparedVectors(traces) : LoadedValue(traces[k], a) # {}}
           values == UNION {LoadedValue(traces[k], a) : k \in seen}
<1>5. Disposition(a) =
         IF \/ Cardinality(ComparedVectors(traces)) < MinCohort
            \/ Cardinality({cohort[k].key : k \in DOMAIN cohort}) < MinKeys
            \/ Cardinality(seen) < MinCohort
         THEN "none"
         ELSE IF Cardinality(values) > 1 THEN "symbolize" ELSE "back"
  BY DEF Disposition
<1>6. seen = ShowingVectors(a)
  BY <1>2
<1> HIDE DEF seen
<1>7. values = UNION {LoadedValue(MergedVector(cohort[k]), a) : k \in ShowingVectors(a)}
  BY <1>4, <1>6
<1> HIDE DEF values, traces
<1> QED
  BY <1>1, <1>5, <1>6, <1>7

(* The cohort has grown: the recordings it had are where they were.        *)
Grown ==
    /\ \E n \in Nat : DOMAIN cohort = 1..n /\ Len(cohort) = n
    /\ \E n \in Nat : DOMAIN cohort' = 1..n /\ Len(cohort') = n
    /\ Len(cohort) <= Len(cohort')
    /\ \A k \in DOMAIN cohort : cohort'[k] = cohort[k]

\* A longer cohort has every recording of the shorter one.
LEMMA GrownDomains ==
  ASSUME Grown
  PROVE  IsFiniteSet(DOMAIN cohort') /\ DOMAIN cohort \subseteq DOMAIN cohort'
<1>1. PICK n \in Nat : DOMAIN cohort = 1..n /\ Len(cohort) = n
  BY DEF Grown
<1>2. PICK m \in Nat : DOMAIN cohort' = 1..m /\ Len(cohort') = m
  BY DEF Grown
<1>3. n <= m
  BY <1>1, <1>2 DEF Grown
<1>4. IsFiniteSet(1..m)
  BY <1>2, UpToIsFinite
<1> QED
  BY <1>1, <1>2, <1>3, <1>4

(* A value seen to vary is seen to vary in the grown cohort.               *)
LEMMA SymbolizeIsKept ==
  ASSUME Grown, NEW a, Disposition(a) = "symbolize"
  PROVE  (Disposition(a) = "symbolize")'
<1> DEFINE f == [k \in DOMAIN cohort' |-> LoadedValue(MergedVector(cohort'[k]), a)]
           keys == [k \in DOMAIN cohort' |-> cohort'[k].key]
           J == JudgedVectors
           H == ShowingVectors(a)
           JJ == {k \in DOMAIN cohort' : MemObserved(MergedVector(cohort'[k]))}
           HH == {k \in JJ : LoadedValue(MergedVector(cohort'[k]), a) # {}}
<1>0. MinCohort \in Nat /\ MinKeys \in Nat
  BY CohortAssumption
<1>1. IsFiniteSet(DOMAIN cohort') /\ DOMAIN cohort \subseteq DOMAIN cohort'
      /\ \A k \in DOMAIN cohort : cohort'[k] = cohort[k]
  BY GrownDomains DEF Grown
<1>2. J \subseteq JJ /\ H \subseteq HH /\ JJ \subseteq DOMAIN cohort' /\ HH \subseteq JJ
  BY <1>1 DEF JudgedVectors, ShowingVectors
<1>3. IsFiniteSet(JJ) /\ IsFiniteSet(HH)
  <2> HIDE DEF JJ, HH
  <2>1. IsFiniteSet(JJ)
    BY <1>1, <1>2, SubsetIsFinite
  <2> QED
    BY <1>2, <2>1, SubsetIsFinite
<1>4. /\ ~(Cardinality(J) < MinCohort) /\ ~(Cardinality(H) < MinCohort)
      /\ ~(Cardinality({cohort[k].key : k \in DOMAIN cohort}) < MinKeys)
      /\ Cardinality(UNION {LoadedValue(MergedVector(cohort[k]), a) : k \in H}) > 1
  BY SymbolizeMeans
<1>5. ~(Cardinality(JJ) < MinCohort) /\ ~(Cardinality(HH) < MinCohort)
  <2> HIDE DEF J, H, JJ, HH
  <2> QED
    BY <1>0, <1>2, <1>3, <1>4, WholeMeets
<1>6. ~(Cardinality({keys[k] : k \in DOMAIN cohort'}) < MinKeys)
  <2>1. {cohort[k].key : k \in DOMAIN cohort} \subseteq {keys[k] : k \in DOMAIN cohort'}
    BY <1>1
  <2> HIDE DEF keys
  <2>2. IsFiniteSet({keys[k] : k \in DOMAIN cohort'})
    BY <1>1, ImageIsFinite
  <2> QED
    BY <1>0, <1>4, <2>1, <2>2, WholeMeets
<1>7. {keys[k] : k \in DOMAIN cohort'} = {cohort'[k].key : k \in DOMAIN cohort'}
  OBVIOUS
<1>8. \A k \in HH : IsFiniteSet(f[k])
  BY OneEach
<1>9. UNION {f[k] : k \in H} = UNION {LoadedValue(MergedVector(cohort[k]), a) : k \in H}
  <2>1. ASSUME NEW k \in H
        PROVE  f[k] = LoadedValue(MergedVector(cohort[k]), a)
    BY <1>1, <2>1 DEF ShowingVectors, JudgedVectors
  <2> HIDE DEF f, H
  <2> QED
    BY <2>1
<1>10. Cardinality(UNION {f[k] : k \in HH}) > 1
  <2>1. Cardinality(UNION {f[k] : k \in H}) > 1
    BY <1>4, <1>9
  <2> HIDE DEF f, H, HH
  <2>2. UNION {f[k] : k \in H} \subseteq UNION {f[k] : k \in HH}
    BY <1>2
  <2>3. IsFiniteSet(UNION {f[k] : k \in HH})
    BY <1>3, <1>8, ShownIsFinite
  <2> QED
    BY <2>1, <2>2, <2>3, MoreShowMore
<1>11. UNION {f[k] : k \in HH} = UNION {LoadedValue(MergedVector(cohort'[k]), a) : k \in HH}
  OBVIOUS
<1>12. JudgedVectors' = JJ /\ ShowingVectors(a)' = HH
  BY DEF JudgedVectors, ShowingVectors
<1>13. /\ ~(Cardinality(JudgedVectors') < MinCohort)
       /\ ~(Cardinality({cohort'[k].key : k \in DOMAIN cohort'}) < MinKeys)
       /\ ~(Cardinality(ShowingVectors(a)') < MinCohort)
       /\ Cardinality(UNION {LoadedValue(MergedVector(cohort'[k]), a) :
                                k \in ShowingVectors(a)'}) > 1
  <2> HIDE DEF f, HH, JJ, keys
  <2> QED
    BY <1>5, <1>6, <1>7, <1>10, <1>11, <1>12
<1>14. (/\ ~(Cardinality(JudgedVectors) < MinCohort)
        /\ ~(Cardinality({cohort[k].key : k \in DOMAIN cohort}) < MinKeys)
        /\ ~(Cardinality(ShowingVectors(a)) < MinCohort)
        /\ Cardinality(UNION {LoadedValue(MergedVector(cohort[k]), a) :
                                 k \in ShowingVectors(a)}) > 1)'
  BY <1>13
<1>15. (Disposition(a) = "symbolize" <=>
        /\ ~(Cardinality(JudgedVectors) < MinCohort)
        /\ ~(Cardinality({cohort[k].key : k \in DOMAIN cohort}) < MinKeys)
        /\ ~(Cardinality(ShowingVectors(a)) < MinCohort)
        /\ Cardinality(UNION {LoadedValue(MergedVector(cohort[k]), a) :
                                 k \in ShowingVectors(a)}) > 1)'
  BY SymbolizeMeans, PTL
<1> QED
  BY <1>14, <1>15

(* An address seen to vary is seen to vary in the grown cohort.            *)
LEMMA AddressVariesOn ==
  ASSUME Grown, NEW i, AddressVaries(i)
  PROVE  AddressVaries(i)'
<1> DEFINE f == [k \in DOMAIN cohort' |-> LoadAddress(cohort'[k].items, Run[i].pc)]
           K == {k \in DOMAIN cohort : LoadAddress(cohort[k].items, Run[i].pc) # {}}
           L == {k \in DOMAIN cohort' : LoadAddress(cohort'[k].items, Run[i].pc) # {}}
<1>1. IsFiniteSet(DOMAIN cohort') /\ DOMAIN cohort \subseteq DOMAIN cohort'
      /\ \A k \in DOMAIN cohort : cohort'[k] = cohort[k]
  BY GrownDomains DEF Grown
<1>2. K \subseteq L /\ L \subseteq DOMAIN cohort'
  BY <1>1
<1>3. \A k \in L : IsFiniteSet(f[k])
  BY OneEach
<1>4. Cardinality(UNION {LoadAddress(cohort[k].items, Run[i].pc) : k \in K}) > 1
  BY DEF AddressVaries
<1>5. UNION {f[k] : k \in K} = UNION {LoadAddress(cohort[k].items, Run[i].pc) : k \in K}
  <2>1. ASSUME NEW k \in K
        PROVE  f[k] = LoadAddress(cohort[k].items, Run[i].pc)
    BY <1>1, <2>1
  <2> HIDE DEF f, K
  <2> QED
    BY <2>1
<1>6. Cardinality(UNION {f[k] : k \in L}) > 1
  <2>1. Cardinality(UNION {f[k] : k \in K}) > 1
    BY <1>4, <1>5
  <2> HIDE DEF f, K, L
  <2>2. UNION {f[k] : k \in K} \subseteq UNION {f[k] : k \in L}
    BY <1>2
  <2>3. IsFiniteSet(L)
    BY <1>1, <1>2, SubsetIsFinite
  <2>4. IsFiniteSet(UNION {f[k] : k \in L})
    BY <1>3, <2>3, ShownIsFinite
  <2> QED
    BY <2>1, <2>2, <2>4, MoreShowMore
<1>7. UNION {f[k] : k \in L} = UNION {LoadAddress(cohort'[k].items, Run[i].pc) : k \in L}
  OBVIOUS
<1>8. Cardinality(UNION {LoadAddress(cohort'[k].items, Run[i].pc) : k \in L}) > 1
  <2> HIDE DEF f, L
  <2> QED
    BY <1>6, <1>7
<1> QED
  BY <1>8 DEF AddressVaries

\* A symbolic address stays the verdict in the grown cohort.
LEMMA VerdictIsKept ==
  ASSUME Grown, StagingVerdict = "symbolic_address"
  PROVE  (StagingVerdict = "symbolic_address")'
<1>1. PICK i \in BlindLoads : Run[i].ea \cap SymbolicAfter[i - 1] # {} \/ AddressVaries(i)
  BY DEF StagingVerdict
<1>2. Run[i].ea \cap SymbolicAfter[i - 1] # {} \/ AddressVaries(i)'
  BY <1>1, AddressVariesOn
<1> QED
  BY <1>1, <1>2 DEF StagingVerdict

(* A site seen at two addresses is seen at two in the grown cohort.        *)
LEMMA SitesAreKept ==
  ASSUME Grown
  PROVE  VaryingSites \subseteq VaryingSites'
<1>1. /\ IsFiniteSet(DOMAIN cohort') /\ DOMAIN cohort \subseteq DOMAIN cohort'
      /\ \A k \in DOMAIN cohort : cohort'[k] = cohort[k]
  BY GrownDomains DEF Grown
<1> DEFINE items == [k \in DOMAIN cohort' |-> cohort'[k].items]
           old == {cohort[k].items : k \in DOMAIN cohort}
           new == {cohort'[k].items : k \in DOMAIN cohort'}
           pcs(T) == UNION {{t[i].pc : i \in InWindow(t)} : t \in T}
           reach(T, s) == UNION {SiteAddress(t, s[1], s[2]) : t \in T}
<1>2. old \subseteq new
  BY <1>1
<1>3. IsFiniteSet(new)
  <2>1. new = {items[k] : k \in DOMAIN cohort'}
    OBVIOUS
  <2> HIDE DEF items, new
  <2>2. IsFiniteSet({items[k] : k \in DOMAIN cohort'})
    BY <1>1, ImageIsFinite
  <2> QED
    BY <2>1, <2>2
<1>4. Len(cohort) \in Nat /\ Len(cohort') \in Nat /\ Len(cohort) <= Len(cohort')
  BY DEF Grown
<1>5. VaryingSites = IF Len(cohort) < 2 THEN {}
                     ELSE {s \in pcs(old) \X {"r", "w"} : Cardinality(reach(old, s)) > 1}
  BY DEF VaryingSites
<1>6. VaryingSites' = IF Len(cohort') < 2 THEN {}
                      ELSE {s \in pcs(new) \X {"r", "w"} : Cardinality(reach(new, s)) > 1}
  BY DEF VaryingSites
<1> HIDE DEF old, new
<1>7. pcs(old) \subseteq pcs(new)
  BY <1>2
<1>8. ASSUME NEW s, Cardinality(reach(old, s)) > 1
      PROVE  Cardinality(reach(new, s)) > 1
  <2> DEFINE f == [t \in new |-> SiteAddress(t, s[1], s[2])]
  <2>1. \A t \in new : IsFiniteSet(f[t])
    BY OneEach
  <2>2. UNION {f[t] : t \in new} = reach(new, s)
    OBVIOUS
  <2>3. reach(old, s) \subseteq reach(new, s)
    BY <1>2
  <2> HIDE DEF f, reach
  <2>4. IsFiniteSet(reach(new, s))
    BY <1>3, <2>1, <2>2, ShownIsFinite
  <2> QED
    BY <1>8, <2>3, <2>4, MoreShowMore
<1> HIDE DEF pcs, reach
<1> QED
  BY <1>4, <1>5, <1>6, <1>7, <1>8

(* The verifier's cohort is what the caller offered, as it was loaded, and *)
(* what has been concluded is what the cohort shows.                       *)
Taken(v) ==
    IF byPath
    THEN [key |-> v.key, items |-> LoadedVector(v), late |-> "none", events |-> <<>>]
    ELSE [key |-> v.key, items |-> v.items, late |-> v.sidecar, events |-> v.events]
CohortTaken ==
    /\ offered \in Seq(Vectors)
    /\ \E n \in Nat : DOMAIN cohort = 1..n /\ Len(cohort) = n /\ n <= Len(offered)
    /\ \A k \in DOMAIN cohort : cohort[k] = Taken(offered[k])
Concluded ==
    /\ \A a \in LiveIn : disposed[a] = "symbolize" => Disposition(a) = "symbolize"
    /\ diagnosed.verdict = "symbolic_address" => StagingVerdict = "symbolic_address"
    /\ varying \subseteq VaryingSites
CohortInv == CohortTaken /\ Concluded

\* Taking the cohort again keeps the recordings taken before.
LEMMA TakingGrows == ASSUME CohortTaken, TakeCohort PROVE Grown /\ CohortTaken'
<1> DEFINE n == Len(offered)
<1>1. n \in Nat /\ DOMAIN offered = 1..n
  BY DEF CohortTaken
<1>2. cohort' = [k \in 1..n |-> Taken(offered[k])]
  BY <1>1 DEF TakeCohort, Taken
<1>3. DOMAIN cohort' = 1..n /\ \A k \in 1..n : cohort'[k] = Taken(offered[k])
  BY <1>2
<1>4. Len(cohort') = n
  <2> DEFINE S == {cohort'[k] : k \in 1..n}
  <2>1. cohort' \in Seq(S)
    BY <1>1, <1>2
  <2>2. DOMAIN cohort' = 1..Len(cohort') /\ Len(cohort') \in Nat
    BY <2>1, LenProperties
  <2> QED
    BY <1>1, <1>3, <2>2
<1>5. PICK m \in Nat : DOMAIN cohort = 1..m /\ Len(cohort) = m /\ m <= n
  BY DEF CohortTaken
<1>6. \A k \in 1..m : k \in 1..n
  BY <1>1, <1>5
<1>7. \A k \in DOMAIN cohort : cohort'[k] = cohort[k]
  BY <1>3, <1>5, <1>6 DEF CohortTaken
<1>8. Grown
  BY <1>1, <1>3, <1>4, <1>5, <1>7 DEF Grown
<1>9. offered' = offered /\ byPath' = byPath
  BY DEF TakeCohort
<1>10. offered' \in Seq(Vectors)
  BY <1>9 DEF CohortTaken
<1>11. DOMAIN cohort' = 1..n /\ Len(cohort') = n /\ n <= Len(offered')
  BY <1>1, <1>3, <1>4, <1>9
<1>12. \A k \in DOMAIN cohort' : cohort'[k] = (Taken(offered[k]))'
  <2>1. \A k : (Taken(offered[k]))' = Taken(offered[k])
    BY <1>9 DEF Taken
  <2> QED
    BY <1>3, <2>1
<1>13. CohortTaken'
  <2> HIDE DEF n
  <2> QED
    BY <1>1, <1>10, <1>11, <1>12 DEF CohortTaken
<1> QED
  BY <1>8, <1>13

(* While the cohort stays, what it shows stays.                            *)
LEMMA SameCohort ==
  ASSUME cohort' = cohort
  PROVE  /\ \A a : Disposition(a)' = Disposition(a)
         /\ StagingVerdict' = StagingVerdict
         /\ VaryingSites' = VaryingSites
<1>1. ASSUME NEW a PROVE Disposition(a)' = Disposition(a)
  BY DEF Disposition
<1>2. \A i : AddressVaries(i)' = AddressVaries(i)
  BY DEF AddressVaries
<1>3. StagingVerdict' = StagingVerdict
  BY <1>2 DEF StagingVerdict
<1>4. VaryingSites' = VaryingSites
  BY DEF VaryingSites
<1> QED
  BY <1>1, <1>3, <1>4

(* What a step keeps: nothing the cohort has shown is unshown by it.       *)
ShownStays ==
    /\ \A a \in LiveIn : Disposition(a) = "symbolize" => (Disposition(a) = "symbolize")'
    /\ StagingVerdict = "symbolic_address" => (StagingVerdict = "symbolic_address")'
    /\ VaryingSites \subseteq VaryingSites'

\* A longer cohort unshows nothing.
LEMMA GrowingShows == ASSUME Grown PROVE ShownStays
  BY SymbolizeIsKept, VerdictIsKept, SitesAreKept DEF ShownStays

\* Neither does a cohort that stays.
LEMMA StayingShows == ASSUME cohort' = cohort PROVE ShownStays
  BY SameCohort DEF ShownStays

(* The cohort stays what was offered, whatever the step.                   *)
LEMMA CohortStays ==
  ASSUME CohortTaken, [CohortNext]_cohortVars
  PROVE  CohortTaken' /\ ShownStays
<1>1. CASE TakeCohort
  BY <1>1, TakingGrows, GrowingShows
<1>2. ASSUME NEW v \in Vectors, OfferVector(v) PROVE CohortTaken' /\ ShownStays
  <2>1. cohort' = cohort /\ byPath' = byPath /\ offered' = Append(offered, v)
    BY <1>2 DEF OfferVector
  <2>2. offered \in Seq(Vectors)
    BY DEF CohortTaken
  <2>3. /\ offered' \in Seq(Vectors) /\ Len(offered') = Len(offered) + 1
        /\ Len(offered) \in Nat
        /\ \A k \in 1..Len(offered) : offered'[k] = offered[k]
    BY <2>1, <2>2, AppendProperties
  <2>4. PICK n \in Nat : DOMAIN cohort = 1..n /\ Len(cohort) = n /\ n <= Len(offered)
    BY DEF CohortTaken
  <2>5. DOMAIN cohort' = 1..n /\ Len(cohort') = n /\ n <= Len(offered')
    BY <2>1, <2>3, <2>4
  <2>6. \A k \in DOMAIN cohort : cohort[k] = Taken(offered[k])
    BY DEF CohortTaken
  <2>7. \A k \in DOMAIN cohort' : cohort'[k] = (Taken(offered[k]))'
    <3>1. ASSUME NEW k \in DOMAIN cohort' PROVE cohort'[k] = (Taken(offered[k]))'
      <4>1. k \in 1..Len(offered)
        BY <2>1, <2>3, <2>4
      <4>2. offered'[k] = offered[k] /\ cohort'[k] = cohort[k] /\ k \in DOMAIN cohort
        BY <2>1, <2>3, <4>1
      <4>3. (Taken(offered[k]))' = Taken(offered[k])
        BY <2>1, <4>2 DEF Taken
      <4> QED
        BY <2>6, <4>2, <4>3
    <3> QED
      BY <3>1
  <2> QED
    BY <2>1, <2>3, <2>5, <2>7, StayingShows DEF CohortTaken
<1>3. ASSUME UNCHANGED <<byPath, offered, cohort>> PROVE CohortTaken' /\ ShownStays
  BY <1>3, StayingShows DEF CohortTaken, Taken
<1>4. CASE RecommendDispositions \/ AdviseStaging \/ DiagnoseStaging
           \/ UNCHANGED cohortVars
  BY <1>3, <1>4 DEF RecommendDispositions, AdviseStaging, DiagnoseStaging, cohortVars
<1> QED
  BY <1>1, <1>2, <1>4 DEF CohortNext

(* A conclusion is drawn from the cohort or left alone.                    *)
LEMMA ConclusionsStay ==
  ASSUME CohortTaken, Concluded, [CohortNext]_cohortVars
  PROVE  /\ Concluded'
         /\ \A a \in LiveIn : disposed[a] = "symbolize" => disposed'[a] = "symbolize"
         /\ diagnosed.verdict = "symbolic_address"
                => diagnosed'.verdict = "symbolic_address"
         /\ varying \subseteq varying'
<1>1. ShownStays
  BY CohortStays
<1>2. \/ disposed' = disposed
      \/ cohort' = cohort /\ disposed' = [a \in LiveIn |-> Disposition(a)]
  BY DEF CohortNext, cohortVars, OfferVector, TakeCohort, RecommendDispositions,
         AdviseStaging, DiagnoseStaging
<1>3. \/ diagnosed' = diagnosed
      \/ cohort' = cohort /\ diagnosed'.verdict = StagingVerdict
  BY DEF CohortNext, cohortVars, OfferVector, TakeCohort, RecommendDispositions,
         AdviseStaging, DiagnoseStaging
<1>4. \/ varying' = varying
      \/ cohort' = cohort /\ varying' = VaryingSites
  BY DEF CohortNext, cohortVars, OfferVector, TakeCohort, RecommendDispositions,
         AdviseStaging, DiagnoseStaging
<1>5. ASSUME NEW a \in LiveIn
      PROVE  /\ disposed[a] = "symbolize" => disposed'[a] = "symbolize"
             /\ disposed'[a] = "symbolize" => (Disposition(a) = "symbolize")'
  <2>1. disposed[a] = "symbolize" => Disposition(a) = "symbolize"
    BY DEF Concluded
  <2>2. Disposition(a) = "symbolize" => (Disposition(a) = "symbolize")'
    BY <1>1 DEF ShownStays
  <2>3. CASE disposed' = disposed
    BY <2>1, <2>2, <2>3
  <2>4. CASE cohort' = cohort /\ disposed' = [b \in LiveIn |-> Disposition(b)]
    <3>1. disposed'[a] = Disposition(a)
      BY <2>4
    <3> QED
      BY <2>1, <2>2, <3>1
  <2> QED
    BY <1>2, <2>3, <2>4
<1>6. /\ diagnosed.verdict = "symbolic_address"
             => diagnosed'.verdict = "symbolic_address"
      /\ diagnosed'.verdict = "symbolic_address"
             => (StagingVerdict = "symbolic_address")'
  <2>1. StagingVerdict = "symbolic_address" => (StagingVerdict = "symbolic_address")'
    BY <1>1 DEF ShownStays
  <2> QED
    BY <1>3, <2>1 DEF Concluded
<1>7. varying \subseteq varying' /\ varying' \subseteq VaryingSites'
  <2>1. VaryingSites \subseteq VaryingSites' /\ varying \subseteq VaryingSites
    BY <1>1 DEF ShownStays, Concluded
  <2> QED
    BY <1>4, <2>1
<1>8. Concluded'
  BY <1>5, <1>6, <1>7 DEF Concluded
<1> QED
  BY <1>5, <1>6, <1>7, <1>8

(* More recordings never take back what fewer have shown: every conclusion *)
(* on the books is one the present cohort supports, a longer cohort keeps  *)
(* the recordings of a shorter one, and what two of them show to vary is   *)
(* shown by the longer as well.                                            *)
THEOREM VarianceStays == CohortSpec => VarianceIsKept
<1>1. CohortInit => CohortInv
  <2> SUFFICES ASSUME CohortInit PROVE CohortInv
    OBVIOUS
  <2>1. CohortTaken
    BY DEF CohortInit, CohortTaken
  <2>2. Concluded
    BY DEF CohortInit, Concluded, NoDiagnosis
  <2> QED
    BY <2>1, <2>2 DEF CohortInv
<1>2. CohortInv /\ [CohortNext]_cohortVars => CohortInv'
  BY CohortStays, ConclusionsStay DEF CohortInv
<1>3. CohortInv /\ [CohortNext]_cohortVars
        => [/\ \A a \in LiveIn : disposed[a] = "symbolize" => disposed'[a] = "symbolize"
            /\ diagnosed.verdict = "symbolic_address"
                   => diagnosed'.verdict = "symbolic_address"
            /\ varying \subseteq varying']_cohortVars
  BY ConclusionsStay DEF CohortInv
<1> QED
  BY <1>1, <1>2, <1>3, PTL DEF CohortSpec, VarianceIsKept
=============================================================================
