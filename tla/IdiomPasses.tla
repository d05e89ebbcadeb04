---------------------------- MODULE IdiomPasses ----------------------------
(***************************************************************************)
(* The deterministic passes over a recorded trace: the per-instruction     *)
(* scans, the Ch and Maj idiom discoverers, the Triton pass that fills the *)
(* gaps and the three-phase search for the SHA-2 sigma folds.  A pass is   *)
(* one step here; its commits one by one are RunLedger's subject.  A       *)
(* register holds a word of Width bits, written as the set of its one      *)
(* bits, and a recorded instruction has really executed, so what it read   *)
(* and wrote follows from the program and the words it was started with.   *)
(* A trace here is one basic block, with registers of a single width.      *)
(***************************************************************************)
EXTENDS Integers, FiniteSets, SequencesExt, FiniteSetsExt, BagsExt

CONSTANTS
    Programs,    \* the recorded traces, sequences of instructions
    Words,       \* the words an input register may start with
    Width,       \* bits of a word
    Templates,   \* the sigma templates: sets of <<shift, amount>>
    Gap,         \* how far a chain looks ahead (MAJ_WIN, MAX_GAP + 1)
    Span,        \* WINDOW of the ungrouped search
    MaxPasses    \* bound on the passes run over one ledger

Regs == {"x", "y", "z", "t", "u", "d"}
Inputs == {"x", "y", "z"}
Ops == {"eor", "and", "orr", "bic", "mov", "ror", "lsr", "eor_sh"}

\* A window of the ungrouped search holds a chain: 32 against two gaps of 9.
ASSUME IdiomAssumption ==
    /\ Width \in Nat \ {0} /\ Words \subseteq SUBSET (0..Width - 1)
    /\ {Gap, Span, MaxPasses} \subseteq Nat /\ Gap + Gap <= Span
    /\ \A p \in Programs :
          /\ Len(p) \in Nat /\ DOMAIN p = 1..Len(p)
          /\ \A i \in DOMAIN p :
                /\ p[i].op \in Ops /\ {p[i].dst, p[i].a, p[i].b} \subseteq Regs
                /\ p[i].op \in {"ror", "lsr", "eor_sh"} => p[i].n \in Nat

VARIABLES
    recording,   \* the trace, with the registers it started from
    claims,      \* a bag: the promoted findings
    grouped,     \* member findings linked under a fold, <<places, place>>
    passes       \* the passes run so far

idiomVars == <<recording, claims, grouped, passes>>

-----------------------------------------------------------------------------
(* The recorded execution.                                                 *)

Code == recording.code
Idx == DOMAIN Code

Xor(v, w) == (v \ w) \union (w \ v)
ShiftedBy(kind, n, w) ==
    IF kind = "ror" THEN {(b + Width - n) % Width : b \in w}
                    ELSE {b - n : b \in {c \in w : c >= n}}

Computed(ins, r) ==
    CASE ins.op = "eor" -> Xor(r[ins.a], r[ins.b])
      [] ins.op = "and" -> r[ins.a] \intersect r[ins.b]
      [] ins.op = "orr" -> r[ins.a] \union r[ins.b]
      [] ins.op = "bic" -> r[ins.a] \ r[ins.b]
      [] ins.op = "mov" -> r[ins.a]
      [] ins.op \in {"ror", "lsr"} -> ShiftedBy(ins.op, ins.n, r[ins.a])
      [] ins.op = "eor_sh" -> Xor(r[ins.a], ShiftedBy(ins.kind, ins.n, r[ins.b]))

\* The registers before each instruction, and what each one wrote.
Before ==
    LET before[i \in 1..Len(Code) + 1] ==
          IF i = 1 THEN [r \in Regs |-> IF r \in Inputs THEN recording.start[r] ELSE {}]
          ELSE [before[i - 1] EXCEPT ![Code[i - 1].dst] = Computed(Code[i - 1], before[i - 1])]
    IN before
Wrote(i) == Before[i + 1][Code[i].dst]

Reads(i, r) == r \in {Code[i].a, Code[i].b}
OtherThan(i, r) == IF Code[i].a = r THEN Code[i].b ELSE Code[i].a
OpAt(i, op) == i \in Idx /\ Code[i].op = op
Places(I) == {Code[i].pc : i \in I}

IdiomInit ==
    /\ recording \in [code : Programs, start : [Inputs -> Words]]
    /\ claims = EmptyBag
    /\ grouped = {}
    /\ passes = <<>>

-----------------------------------------------------------------------------
(* The single-instruction passes: one claim per place whose shape the pass *)
(* models.  The verifier recomputes the same operation, so it passes.      *)

Layer0 == [binop |-> {"eor", "and", "orr"}, unary |-> {"mov"},
           imm_binop |-> {"ror", "lsr"}, ext_binop |-> {"eor_sh"}, bfx |-> {"ubfx"}]
Claim(layer, places, at) == [layer |-> layer, places |-> places, at |-> at]

Scan(layer) == {Claim(layer, {Code[i].pc}, Code[i].pc) : i \in {j \in Idx : Code[j].op \in Layer0[layer]}}

\* The Triton pass takes every place the layer-0 passes and Ch have not
\* claimed; the Maj, Triton and fold claims are not in its list.
Covered == {c.at : c \in {k \in BagToSet(claims) : k.layer \in DOMAIN Layer0 \union {"ch"}}}
TritonScan == {Claim("triton", {Code[i].pc}, Code[i].pc) : i \in {j \in Idx : Code[j].pc \notin Covered}}

-----------------------------------------------------------------------------
(* Ch(x, y, z): three instructions in a row, or and, bic and orr apart.    *)

Ch(x, y, z) == (x \intersect y) \union (z \ x)
Maj(a, b, c) == (a \intersect b) \union (a \intersect c) \union (b \intersect c)

\* Slip: the operands of the swapped form are read in the unswapped order.
ChOperandsUnswapped(i) ==
    LET t == Code[i].dst  c == OtherThan(i + 2, t)
    IN [x |-> OtherThan(i + 1, t), y |-> Code[i].a, z |-> Code[i].b, fits |-> c \in {Code[i].a, Code[i].b}]

\* eor t,y,z; and t,t,x; eor d,t,z - or eor d,t,y, which swaps y and z.
ChOperands(i) ==
    LET t == Code[i].dst  y == Code[i].a  z == Code[i].b  c == OtherThan(i + 2, t)
    IN [x |-> OtherThan(i + 1, t), y |-> IF c = z THEN y ELSE z,
        z |-> IF c = z THEN z ELSE y, fits |-> c \in {y, z}]

\* The input state: what the eor read, overridden by what the and read.
ChInput(i, r) == IF Reads(i + 1, r) THEN Before[i + 1][r] ELSE Before[i][r]

ChWindows ==
    {i \in Idx : LET t == Code[i].dst  o == ChOperands(i) IN
       /\ OpAt(i, "eor") /\ OpAt(i + 1, "and") /\ OpAt(i + 2, "eor")
       /\ Code[i + 1].dst = t /\ Reads(i + 1, t) /\ Reads(i + 2, t)
       /\ o.fits
       /\ Ch(ChInput(i, o.x), ChInput(i, o.y), ChInput(i, o.z)) = Wrote(i + 2)}

LastBefore(i, op, r) ==
    LET W == {j \in 1..i - 1 : OpAt(j, op) /\ Code[j].dst = r} IN IF W = {} THEN 0 ELSE Max(W)

\* (x and y) or (z bic x), each half the last of its kind before the orr,
\* whatever else has written that register since.
ChByBic(i) ==
    \E p \in {<<Code[i].a, Code[i].b>>, <<Code[i].b, Code[i].a>>} :
      LET n == LastBefore(i, "and", p[1])  m == LastBefore(i, "bic", p[2]) IN
        /\ n # 0 /\ m # 0
        /\ LET x == Code[m].b  z == Code[m].a  y == OtherThan(n, x) IN
             /\ Reads(n, x) /\ y # z
             /\ Before[n][x] = Before[m][x]
             /\ Ch(Before[n][x], Before[n][y], Before[m][z]) = Wrote(i)

ChScan == {Claim("ch", {Code[i + 2].pc}, Code[i + 2].pc) : i \in ChWindows}
          \union {Claim("ch", {Code[i].pc}, Code[i].pc) : i \in {j \in Idx : OpAt(j, "orr") /\ ChByBic(j)}}

-----------------------------------------------------------------------------
(* Maj(a, b, c): eor t,b,c; and t,t,a; eor d,t,u where u = b and c.        *)

Within(i) == i + 1..Min({Len(Code), i + Gap})
Writes(i, r) == Code[i].dst = r

\* The first instruction of the window that takes the chain on, unless the
\* accumulator is overwritten before it: the index, or 0.
Next1(i, acc, takes) ==
    LET J == {j \in Within(i) : j \in takes \/ Writes(j, acc)} IN
    IF J # {} /\ Min(J) \in takes THEN Min(J) ELSE 0

MajAnd(i) ==
    LET t == Code[i].dst
    IN Next1(i, t, {j \in Idx : OpAt(j, "and") /\ Writes(j, t) /\ Reads(j, t)})
BothAnded(k, u, b, c) ==
    \E n \in 1..k - 1 : OpAt(n, "and") /\ Code[n].dst = u /\ {Code[n].a, Code[n].b} = {b, c}
MajEor(i, j) ==
    LET t == Code[i].dst
    IN Next1(j, t, {k \in Idx : OpAt(k, "eor") /\ Reads(k, t)
                                /\ BothAnded(k, OtherThan(k, t), Code[i].a, Code[i].b)})

MajMatches ==
    {m \in Idx \X Idx \X Idx :
       LET i == m[1]  j == m[2]  k == m[3]
           b == Code[i].a  c == Code[i].b  a == OtherThan(j, Code[i].dst) IN
       /\ OpAt(i, "eor") /\ b # c
       /\ j = MajAnd(i) /\ k = MajEor(i, j)
       /\ Maj(IF a \in {b, c} THEN Before[i][a] ELSE Before[j][a], Before[i][b], Before[i][c]) = Wrote(k)}
MajScan == {Claim("maj", {Code[m[3]].pc}, Code[m[3]].pc) : m \in MajMatches}

-----------------------------------------------------------------------------
(* The sigma folds: a seed shift and two eor with a shifted second operand *)
(* of the same register.                                                   *)

IsSeed(i) == i \in Idx /\ Code[i].op \in {"ror", "lsr"}
IsStep(i) == OpAt(i, "eor_sh")
Piece(i) == IF IsSeed(i) THEN <<Code[i].op, Code[i].n>> ELSE <<Code[i].kind, Code[i].n>>
Source(i) == IF IsSeed(i) THEN Code[i].a ELSE Code[i].b

\* The bits that an odd number of the words have.
XorAll(word) ==
    {b \in UNION Range(word) : Cardinality({i \in DOMAIN word : b \in word[i]}) % 2 = 1}

\* The three shifts of the word the first one read are what the last wrote.
Algebra(I) ==
    LET x == Before[Min(I)][Source(Min(I))]
    IN XorAll([i \in I |-> ShiftedBy(Piece(i)[1], Piece(i)[2], x)]) = Wrote(Max(I))
Fits(I) == Cardinality(I) = 3 /\ {Piece(i) : i \in I} \in Templates /\ Algebra(I)

\* A chain: each eor carries the accumulator of the step before it, in a row
\* or within the gap of a block while nothing overwrites the accumulator.
CarriesOn(acc, x) == {k \in Idx : IsStep(k) /\ Code[k].a = acc /\ Code[k].b = x}
Chains ==
    {I \in {LET j == Next1(i, Code[i].dst, CarriesOn(Code[i].dst, Code[i].a))
                k == IF j = 0 THEN 0 ELSE Next1(j, Code[j].dst, CarriesOn(Code[j].dst, Code[i].a))
            IN {i, j, k} : i \in {s \in Idx : IsSeed(s)}} : 0 \notin I /\ Fits(I)}

Triples(S) == {I \in SUBSET S : Cardinality(I) = 3}

\* The ungrouped search: any three shifts of one register, near enough.
Ungrouped ==
    {I \in Triples({i \in Idx : IsSeed(i) \/ IsStep(i)}) :
       /\ \A i, j \in I : Source(i) = Source(j)
       /\ Max(I) - Min(I) <= Span
       /\ Fits(I)}

\* The places of the folds already promoted, read from the findings.
Folded == {c.places : c \in {k \in BagToSet(claims) : k.layer = "fold"}}
\* Where a triple recurs, its subject names the passage met first; that is
\* left out, the places are what tells folds apart.
Fold(I) == [layer |-> "fold", places |-> Places(I)]

\* Slip: the places of the folds on record are not read back.
FreshAlways(I) == Places(I) # {}
\* A triple of places is folded once; two passages of a loop are one triple.
Fresh(I) == Places(I) \notin Folded

SigmaScan == {Fold(I) : I \in {J \in Chains \union Ungrouped : Fresh(J)}}

\* Only the folds the first two phases find get their members linked, and
\* only to the layer-0 claims that are there by then.
Members(I) == {<<Places(I), Code[i].pc>> : i \in {j \in I : \E c \in BagToSet(claims) :
                   c.layer # "fold" /\ c.at = Code[j].pc}}
Linked == UNION {Members(I) : I \in {J \in Chains : Fresh(J)}}

-----------------------------------------------------------------------------

RunPass(name, found, links) ==
    /\ Len(passes) < MaxPasses
    /\ claims' = claims (+) SetToBag(found)
    /\ grouped' = grouped \union links
    /\ passes' = Append(passes, name)
    /\ UNCHANGED recording

Layer0Pass == \E layer \in DOMAIN Layer0 : RunPass(layer, Scan(layer), {})
ChPass == RunPass("ch", ChScan, {})
MajPass == RunPass("maj", MajScan, {})
\* Without the Triton bindings the pass finds nothing.
TritonPass == \E available \in BOOLEAN : RunPass("triton", IF available THEN TritonScan ELSE {}, {})
SigmaPass == RunPass("sigma", SigmaScan, Linked)

IdiomNext == Layer0Pass \/ ChPass \/ MajPass \/ TritonPass \/ SigmaPass

IdiomSpec == IdiomInit /\ [][IdiomNext]_idiomVars

-----------------------------------------------------------------------------
(* Properties.                                                             *)

LastWriter(i, r) == LET W == {j \in 1..i - 1 : Writes(j, r)} IN IF W = {} THEN 0 ELSE Max(W)
Steady(i, k, r) == \A j \in i..k : ~Writes(j, r)

\* Every Ch the compiler emitted in its three-instruction form, with a
\* temporary of its own, is claimed once the pass has run: by definition-use
\* chains, not by the pass's matcher (_handler_verify.py:515-575).
EmittedCh ==
    {i \in Idx : LET t == Code[i].dst IN
       /\ OpAt(i, "eor") /\ OpAt(i + 1, "and") /\ OpAt(i + 2, "eor")
       /\ LastWriter(i + 1, t) = i /\ LastWriter(i + 2, t) = i + 1
       /\ Reads(i + 1, t) /\ Reads(i + 2, t)
       /\ OtherThan(i + 2, t) \in {Code[i].a, Code[i].b}
       /\ Cardinality({t, Code[i].a, Code[i].b, OtherThan(i + 1, t)}) = 4}
\* Likewise each sigma chain whose input register is steady.
EmittedSigma ==
    {I \in Triples(Idx) : \E i, j, k \in I :
       /\ i < j /\ j < k /\ j - i <= Gap /\ k - j <= Gap
       /\ IsSeed(i) /\ IsStep(j) /\ IsStep(k)
       /\ Cardinality({Source(m) : m \in I}) = 1 /\ Steady(i, k - 1, Source(i))
       /\ LastWriter(j, Code[j].a) = i /\ LastWriter(k, Code[k].a) = j
       /\ {Piece(m) : m \in I} \in Templates}
IdiomsFound ==
    /\ Contains(passes, "ch") =>
         \A i \in EmittedCh : \E c \in BagToSet(claims) : c.layer = "ch" /\ c.at = Code[i + 2].pc
    /\ Contains(passes, "sigma") => \A I \in EmittedSigma : Fold(I) \in BagToSet(claims)

\* However often and in whatever order the passes are run over one ledger, a
\* sigma fold is promoted once (_handler_verify.py:1190-1220, :1275).
FoldedOnce == \A c \in BagToSet(claims) : c.layer = "fold" => claims[c] = 1

=============================================================================
