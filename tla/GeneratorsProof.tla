--------------------------- MODULE GeneratorsProof ---------------------------
(* The ripple loops of project2 are right for modules of every width, its      *)
(* netlists have their types and no cycles, and the files written say what    *)
(* they do.                                                                   *)
EXTENDS Generators, SequenceTheorems, FiniteSetTheorems, TLAPS

(* A node as far as values go: its record, and a value that is a bit. *)
IsNode(r) == DOMAIN r = {"type", "fanin", "gate", "val"} /\ r.val \in {0, 1}
IsCircuit(c) == \A n \in DOMAIN c : IsNode(c[n])

(* Circuit d is circuit c (with the names D) but for a gate of value v at out. *)
Made(D, c, d, out, v) ==
  /\ DOMAIN d = D /\ IsCircuit(d)
  /\ d[out].val = v
  /\ \A n \in D : n # out => d[n] = c[n]

Apart(S, T) == S \cap T = {}

----------------------------------------------------------------------------
(* Gates *)

LEMMA ValueIsBit == \A gate, bits : Value(gate, bits) \in {0, 1}
  BY DEF Value

LEMMA AndValue ==
  ASSUME NEW a \in {0, 1}, NEW b \in {0, 1}
  PROVE  Value("and2", <<a, b>>) = IF a = 1 /\ b = 1 THEN 1 ELSE 0
<1> DEFINE bits == <<a, b>>
<1>1. DOMAIN bits = {1, 2} /\ bits[1] = a /\ bits[2] = b
  OBVIOUS
<1>2. Rows["and2"] = {<<1, 1>>}
  BY DEF Rows
<1>3. (\E row \in Rows["and2"] : \A j \in DOMAIN bits : row[j] \in {bits[j], DC}) <=> a = 1 /\ b = 1
  BY <1>1, <1>2 DEF DC
<1> QED
  BY <1>3 DEF Value

LEMMA OrValue ==
  ASSUME NEW a \in {0, 1}, NEW b \in {0, 1}
  PROVE  Value("or2", <<a, b>>) = IF a = 1 \/ b = 1 THEN 1 ELSE 0
<1> DEFINE bits == <<a, b>>
<1>1. DOMAIN bits = {1, 2} /\ bits[1] = a /\ bits[2] = b
  OBVIOUS
<1>2. Rows["or2"] = {<<DC, 1>>, <<1, DC>>}
  BY DEF Rows
<1>3. (\E row \in Rows["or2"] : \A j \in DOMAIN bits : row[j] \in {bits[j], DC}) <=> a = 1 \/ b = 1
  BY <1>1, <1>2 DEF DC
<1> QED
  BY <1>3 DEF Value

LEMMA XorValue ==
  ASSUME NEW a \in {0, 1}, NEW b \in {0, 1}, NEW c \in {0, 1}
  PROVE  Value("xor3", <<a, b, c>>) = IF a + b + c \in {1, 3} THEN 1 ELSE 0
<1> DEFINE bits == <<a, b, c>>
           fits(row) == \A j \in DOMAIN bits : row[j] \in {bits[j], DC}
<1>1. DOMAIN bits = {1, 2, 3} /\ bits[1] = a /\ bits[2] = b /\ bits[3] = c
  OBVIOUS
<1>2. Rows["xor3"] = {<<0, 0, 1>>, <<0, 1, 0>>, <<1, 0, 0>>, <<1, 1, 1>>}
  BY DEF Rows
<1>3. /\ fits(<<0, 0, 1>>) <=> a = 0 /\ b = 0 /\ c = 1
      /\ fits(<<0, 1, 0>>) <=> a = 0 /\ b = 1 /\ c = 0
      /\ fits(<<1, 0, 0>>) <=> a = 1 /\ b = 0 /\ c = 0
      /\ fits(<<1, 1, 1>>) <=> a = 1 /\ b = 1 /\ c = 1
  BY <1>1 DEF DC
<1>4. (\E row \in Rows["xor3"] : fits(row)) <=> a + b + c \in {1, 3}
  <2> HIDE DEF fits
  <2>1. (\E row \in Rows["xor3"] : fits(row))
          <=> fits(<<0, 0, 1>>) \/ fits(<<0, 1, 0>>) \/ fits(<<1, 0, 0>>) \/ fits(<<1, 1, 1>>)
    BY <1>2, Zenon
  <2> QED
    BY <2>1, <1>3
<1> QED
  BY <1>4 DEF Value

(* What a gate changes: the value of its output and nothing else of value. *)
LEMMA GateEffect ==
  ASSUME NEW c, IsCircuit(c), NEW out \in DOMAIN c, NEW gate, NEW ins,
         NEW d, d = SetGate(c, out, gate, ins)
  PROVE  /\ DOMAIN d = DOMAIN c /\ IsCircuit(d)
         /\ d[out].val = Value(gate, ValuesOf(c, ins))
         /\ \A n \in DOMAIN c : n # out => d[n] = c[n]
<1>1. PICK w : w = Value(gate, ValuesOf(c, ins))
  OBVIOUS
<1>2. w \in {0, 1}
  BY <1>1, ValueIsBit
<1>3. d = [c EXCEPT ![out] = [c[out] EXCEPT !.fanin = ins, !.gate = gate, !.val = w]]
  BY <1>1 DEF SetGate
<1>4. DOMAIN d = DOMAIN c /\ \A n \in DOMAIN c : n # out => d[n] = c[n]
  BY <1>3
<1>5. d[out] = [c[out] EXCEPT !.fanin = ins, !.gate = gate, !.val = w]
  BY <1>3
<1>6. IsNode(c[out])
  BY DEF IsCircuit
<1>7. IsNode(d[out]) /\ d[out].val = w
  BY <1>2, <1>5, <1>6 DEF IsNode
<1>8. IsCircuit(d)
  BY <1>4, <1>7 DEF IsCircuit
<1> QED
  BY <1>1, <1>4, <1>7, <1>8

LEMMA Gate2 ==
  ASSUME NEW D, NEW c, DOMAIN c = D, IsCircuit(c), NEW out \in D, NEW gate,
         NEW p \in D, NEW q \in D,
         NEW d, d = SetGate(c, out, gate, <<p, q>>)
  PROVE  Made(D, c, d, out, Value(gate, <<c[p].val, c[q].val>>))
<1>1. PICK ins : ins = <<p, q>>
  OBVIOUS
<1>2. PICK bits : bits = <<c[p].val, c[q].val>>
  OBVIOUS
<1>3. bits = ValuesOf(c, ins)
  BY <1>1, <1>2 DEF ValuesOf
<1>4. d = SetGate(c, out, gate, ins)
  BY <1>1
<1>5. /\ DOMAIN d = DOMAIN c /\ IsCircuit(d)
      /\ d[out].val = Value(gate, bits)
      /\ \A n \in DOMAIN c : n # out => d[n] = c[n]
  BY <1>3, <1>4, GateEffect
<1> QED
  BY <1>2, <1>5 DEF Made

LEMMA Gate3 ==
  ASSUME NEW D, NEW c, DOMAIN c = D, IsCircuit(c), NEW out \in D, NEW gate,
         NEW p \in D, NEW q \in D, NEW r \in D,
         NEW d, d = SetGate(c, out, gate, <<p, q, r>>)
  PROVE  Made(D, c, d, out, Value(gate, <<c[p].val, c[q].val, c[r].val>>))
<1>1. PICK ins : ins = <<p, q, r>>
  OBVIOUS
<1>2. PICK bits : bits = <<c[p].val, c[q].val, c[r].val>>
  OBVIOUS
<1>3. bits = ValuesOf(c, ins)
  BY <1>1, <1>2 DEF ValuesOf
<1>4. d = SetGate(c, out, gate, ins)
  BY <1>1
<1>5. /\ DOMAIN d = DOMAIN c /\ IsCircuit(d)
      /\ d[out].val = Value(gate, bits)
      /\ \A n \in DOMAIN c : n # out => d[n] = c[n]
  BY <1>3, <1>4, GateEffect
<1> QED
  BY <1>2, <1>5 DEF Made

(* A gate on a node that is not there changes nothing: IsCircuit holds anyway. *)
LEMMA GateKeeps ==
  ASSUME NEW c, IsCircuit(c), NEW out, NEW gate, NEW ins
  PROVE  IsCircuit(SetGate(c, out, gate, ins)) /\ DOMAIN SetGate(c, out, gate, ins) = DOMAIN c
<1>1. CASE out \in DOMAIN c
  <2>2. PICK d : d = SetGate(c, out, gate, ins)
    OBVIOUS
  <2>3. DOMAIN d = DOMAIN c /\ IsCircuit(d)
    BY <1>1, <2>2, GateEffect
  <2> QED
    BY <2>2, <2>3
<1>2. CASE out \notin DOMAIN c
  <2>1. DOMAIN SetGate(c, out, gate, ins) = DOMAIN c
    BY DEF SetGate
  <2>2. \A n \in DOMAIN c : SetGate(c, out, gate, ins)[n] = c[n]
    BY <1>2 DEF SetGate
  <2> QED
    BY <2>1, <2>2 DEF IsCircuit
<1> QED
  BY <1>1, <1>2

----------------------------------------------------------------------------
(* One iteration of the loops, on names that it keeps apart *)

AdderApart(a, b, ci, zero, s, ab, axb, caxb, co) ==
  /\ Apart({a, b, zero}, {s, ab, axb, caxb, co}) /\ Apart({ci}, {s, ab, axb})
  /\ Apart({s}, {ab, axb, caxb, co}) /\ Apart({ab}, {axb, caxb})

AdderGates(c, a, b, ci, zero, s, ab, axb, caxb, co) ==
  LET c1 == SetGate(c, s, "xor3", <<a, b, ci>>)
      c2 == SetGate(c1, ab, "and2", <<a, b>>)
      c3 == SetGate(c2, axb, "xor3", <<zero, a, b>>)
      c4 == SetGate(c3, caxb, "and2", <<ci, axb>>)
  IN SetGate(c4, co, "or2", <<ab, caxb>>)

LEMMA FullAdder ==
  ASSUME NEW c, IsCircuit(c), NEW a, NEW b, NEW ci, NEW zero, NEW s, NEW ab, NEW axb, NEW caxb, NEW co,
         a \in DOMAIN c, b \in DOMAIN c, ci \in DOMAIN c, zero \in DOMAIN c, s \in DOMAIN c,
         ab \in DOMAIN c, axb \in DOMAIN c, caxb \in DOMAIN c, co \in DOMAIN c,
         AdderApart(a, b, ci, zero, s, ab, axb, caxb, co), c[zero].val = 0,
         NEW d, d = AdderGates(c, a, b, ci, zero, s, ab, axb, caxb, co)
  PROVE  /\ DOMAIN d = DOMAIN c /\ IsCircuit(d)
         /\ \A n \in DOMAIN c : n \notin {s, ab, axb, caxb, co} => d[n] = c[n]
         /\ c[a].val + c[b].val + c[ci].val = d[s].val + 2 * d[co].val
<1>p. PICK D, c1, c2, c3, c4, c5 :
        /\ D = DOMAIN c
        /\ c1 = SetGate(c, s, "xor3", <<a, b, ci>>)
        /\ c2 = SetGate(c1, ab, "and2", <<a, b>>)
        /\ c3 = SetGate(c2, axb, "xor3", <<zero, a, b>>)
        /\ c4 = SetGate(c3, caxb, "and2", <<ci, axb>>)
        /\ c5 = SetGate(c4, co, "or2", <<ab, caxb>>)
  OBVIOUS
<1>q. d = c5
  BY <1>p DEF AdderGates
<1> USE <1>p DEF AdderApart
<1>1. Made(D, c, c1, s, Value("xor3", <<c[a].val, c[b].val, c[ci].val>>))
  BY Gate3
<1>d1. DOMAIN c1 = D /\ IsCircuit(c1)
  BY <1>1 DEF Made
<1>f1. \A n \in D : n # s => c1[n] = c[n]
  BY <1>1 DEF Made
<1>2. Made(D, c1, c2, ab, Value("and2", <<c1[a].val, c1[b].val>>))
  BY <1>d1, Gate2
<1>d2. DOMAIN c2 = D /\ IsCircuit(c2)
  BY <1>2 DEF Made
<1>f2. \A n \in D : n # ab => c2[n] = c1[n]
  BY <1>2 DEF Made
<1>3. Made(D, c2, c3, axb, Value("xor3", <<c2[zero].val, c2[a].val, c2[b].val>>))
  BY <1>d2, Gate3
<1>d3. DOMAIN c3 = D /\ IsCircuit(c3)
  BY <1>3 DEF Made
<1>f3. \A n \in D : n # axb => c3[n] = c2[n]
  BY <1>3 DEF Made
<1>4. Made(D, c3, c4, caxb, Value("and2", <<c3[ci].val, c3[axb].val>>))
  BY <1>d3, Gate2
<1>d4. DOMAIN c4 = D /\ IsCircuit(c4)
  BY <1>4 DEF Made
<1>f4. \A n \in D : n # caxb => c4[n] = c3[n]
  BY <1>4 DEF Made
<1>5. Made(D, c4, c5, co, Value("or2", <<c4[ab].val, c4[caxb].val>>))
  BY <1>d4, Gate2
<1>d5. DOMAIN c5 = D /\ IsCircuit(c5)
  BY <1>5 DEF Made
<1>f5. \A n \in D : n # co => c5[n] = c4[n]
  BY <1>5 DEF Made
<1> DEFINE va == c[a].val
           vb == c[b].val
           vi == c[ci].val
<1>6. va \in {0, 1} /\ vb \in {0, 1} /\ vi \in {0, 1}
  BY DEF IsCircuit, IsNode
<1>7. /\ c1[a].val = va /\ c1[b].val = vb
      /\ c2[a].val = va /\ c2[b].val = vb /\ c2[zero].val = 0
      /\ c3[ci].val = vi
      /\ c3[ab].val = c2[ab].val /\ c4[ab].val = c2[ab].val
      /\ c5[s].val = c1[s].val
  <2>1. \A n \in {a, b, zero} : n \in D /\ n # s /\ n # ab
    BY DEF Apart
  <2>2. ci # s /\ ci # ab /\ ci # axb /\ ab # axb /\ ab # caxb
    BY DEF Apart
  <2>3. s # ab /\ s # axb /\ s # caxb /\ s # co
    BY DEF Apart
  <2>4. c1[a] = c[a] /\ c1[b] = c[b] /\ c1[zero] = c[zero] /\ c1[ci] = c[ci]
    BY <1>f1, <2>1, <2>2
  <2>5. c2[a] = c[a] /\ c2[b] = c[b] /\ c2[zero] = c[zero] /\ c2[ci] = c[ci] /\ c2[s] = c1[s]
    BY <1>f2, <2>1, <2>2, <2>3, <2>4
  <2>6. c3[ci] = c[ci] /\ c3[ab] = c2[ab] /\ c3[s] = c1[s]
    BY <1>f3, <2>2, <2>3, <2>5
  <2>7. c4[ab] = c2[ab] /\ c5[s] = c1[s]
    BY <1>f4, <1>f5, <2>2, <2>3, <2>6
  <2> QED
    BY <2>4, <2>5, <2>6, <2>7
<1> HIDE DEF va, vb, vi
<1>8. c5[s].val = IF va + vb + vi \in {1, 3} THEN 1 ELSE 0
  BY <1>1, <1>6, <1>7, XorValue DEF va, vb, vi, Made
<1>9. c4[ab].val = IF va = 1 /\ vb = 1 THEN 1 ELSE 0
  BY <1>2, <1>6, <1>7, AndValue DEF Made
<1>10. c3[axb].val = IF 0 + va + vb \in {1, 3} THEN 1 ELSE 0
  BY <1>3, <1>6, <1>7, XorValue DEF Made
<1>11. c3[axb].val \in {0, 1}
  BY <1>10
<1>12. c4[caxb].val = IF vi = 1 /\ c3[axb].val = 1 THEN 1 ELSE 0
  BY <1>4, <1>6, <1>7, <1>11, AndValue DEF Made
<1>13. c5[co].val = IF c4[ab].val = 1 \/ c4[caxb].val = 1 THEN 1 ELSE 0
  <2>1. c4[ab].val \in {0, 1} /\ c4[caxb].val \in {0, 1}
    BY <1>9, <1>12
  <2> QED
    BY <1>5, <2>1, OrValue DEF Made
<1>14. va + vb + vi = c5[s].val + 2 * c5[co].val
  BY <1>6, <1>8, <1>9, <1>10, <1>12, <1>13
<1>15. \A n \in D : n \notin {s, ab, axb, caxb, co} => c5[n] = c[n]
  BY <1>f1, <1>f2, <1>f3, <1>f4, <1>f5
<1> QED
  BY <1>q, <1>d5, <1>14, <1>15 DEF va, vb, vi

SubtractorApart(a, b, bi, zero, one, s, axb, naxb, t1, na, t2, bo) ==
  /\ Apart({a, b, bi, zero, one}, {s, axb, naxb, t1, na, t2, bo})
  /\ Apart({s}, {axb, naxb, t1, na, t2, bo}) /\ Apart({t1}, {na, t2})

SubtractorGates(c, a, b, bi, zero, one, s, axb, naxb, t1, na, t2, bo) ==
  LET c1 == SetGate(c, s, "xor3", <<a, b, bi>>)
      c2 == SetGate(c1, axb, "xor3", <<zero, a, b>>)
      c3 == SetGate(c2, naxb, "xor3", <<zero, axb, one>>)
      c4 == SetGate(c3, t1, "and2", <<bi, naxb>>)
      c5 == SetGate(c4, na, "xor3", <<zero, a, one>>)
      c6 == SetGate(c5, t2, "and2", <<na, b>>)
  IN SetGate(c6, bo, "or2", <<t1, t2>>)

LEMMA FullSubtractor ==
  ASSUME NEW c, IsCircuit(c), NEW a, NEW b, NEW bi, NEW zero, NEW one,
         NEW s, NEW axb, NEW naxb, NEW t1, NEW na, NEW t2, NEW bo,
         a \in DOMAIN c, b \in DOMAIN c, bi \in DOMAIN c, zero \in DOMAIN c, one \in DOMAIN c,
         s \in DOMAIN c, axb \in DOMAIN c, naxb \in DOMAIN c, t1 \in DOMAIN c,
         na \in DOMAIN c, t2 \in DOMAIN c, bo \in DOMAIN c,
         SubtractorApart(a, b, bi, zero, one, s, axb, naxb, t1, na, t2, bo),
         c[zero].val = 0, c[one].val = 1,
         NEW d, d = SubtractorGates(c, a, b, bi, zero, one, s, axb, naxb, t1, na, t2, bo)
  PROVE  /\ DOMAIN d = DOMAIN c /\ IsCircuit(d)
         /\ \A n \in DOMAIN c : n \notin {s, axb, naxb, t1, na, t2, bo} => d[n] = c[n]
         /\ c[a].val - c[b].val - c[bi].val = d[s].val - 2 * d[bo].val
<1>p. PICK D, c1, c2, c3, c4, c5, c6, c7 :
        /\ D = DOMAIN c
        /\ c1 = SetGate(c, s, "xor3", <<a, b, bi>>)
        /\ c2 = SetGate(c1, axb, "xor3", <<zero, a, b>>)
        /\ c3 = SetGate(c2, naxb, "xor3", <<zero, axb, one>>)
        /\ c4 = SetGate(c3, t1, "and2", <<bi, naxb>>)
        /\ c5 = SetGate(c4, na, "xor3", <<zero, a, one>>)
        /\ c6 = SetGate(c5, t2, "and2", <<na, b>>)
        /\ c7 = SetGate(c6, bo, "or2", <<t1, t2>>)
  OBVIOUS
<1>q. d = c7
  BY <1>p DEF SubtractorGates
<1> USE <1>p DEF SubtractorApart
<1>1. Made(D, c, c1, s, Value("xor3", <<c[a].val, c[b].val, c[bi].val>>))
  BY Gate3
<1>d1. DOMAIN c1 = D /\ IsCircuit(c1)
  BY <1>1 DEF Made
<1>f1. \A n \in D : n # s => c1[n] = c[n]
  BY <1>1 DEF Made
<1>2. Made(D, c1, c2, axb, Value("xor3", <<c1[zero].val, c1[a].val, c1[b].val>>))
  BY <1>d1, Gate3
<1>d2. DOMAIN c2 = D /\ IsCircuit(c2)
  BY <1>2 DEF Made
<1>f2. \A n \in D : n # axb => c2[n] = c1[n]
  BY <1>2 DEF Made
<1>3. Made(D, c2, c3, naxb, Value("xor3", <<c2[zero].val, c2[axb].val, c2[one].val>>))
  BY <1>d2, Gate3
<1>d3. DOMAIN c3 = D /\ IsCircuit(c3)
  BY <1>3 DEF Made
<1>f3. \A n \in D : n # naxb => c3[n] = c2[n]
  BY <1>3 DEF Made
<1>4. Made(D, c3, c4, t1, Value("and2", <<c3[bi].val, c3[naxb].val>>))
  BY <1>d3, Gate2
<1>d4. DOMAIN c4 = D /\ IsCircuit(c4)
  BY <1>4 DEF Made
<1>f4. \A n \in D : n # t1 => c4[n] = c3[n]
  BY <1>4 DEF Made
<1>5. Made(D, c4, c5, na, Value("xor3", <<c4[zero].val, c4[a].val, c4[one].val>>))
  BY <1>d4, Gate3
<1>d5. DOMAIN c5 = D /\ IsCircuit(c5)
  BY <1>5 DEF Made
<1>f5. \A n \in D : n # na => c5[n] = c4[n]
  BY <1>5 DEF Made
<1>6. Made(D, c5, c6, t2, Value("and2", <<c5[na].val, c5[b].val>>))
  BY <1>d5, Gate2
<1>d6. DOMAIN c6 = D /\ IsCircuit(c6)
  BY <1>6 DEF Made
<1>f6. \A n \in D : n # t2 => c6[n] = c5[n]
  BY <1>6 DEF Made
<1>7. Made(D, c6, c7, bo, Value("or2", <<c6[t1].val, c6[t2].val>>))
  BY <1>d6, Gate2
<1>d7. DOMAIN c7 = D /\ IsCircuit(c7)
  BY <1>7 DEF Made
<1>f7. \A n \in D : n # bo => c7[n] = c6[n]
  BY <1>7 DEF Made
<1> DEFINE va == c[a].val
           vb == c[b].val
           vi == c[bi].val
<1>8. va \in {0, 1} /\ vb \in {0, 1} /\ vi \in {0, 1}
  BY DEF IsCircuit, IsNode
<1>9. \A n \in {a, b, bi, zero, one} :
        /\ c1[n] = c[n] /\ c2[n] = c[n] /\ c3[n] = c[n] /\ c4[n] = c[n]
        /\ c5[n] = c[n] /\ c6[n] = c[n]
  <2>1. \A n \in {a, b, bi, zero, one} :
           n \in D /\ n # s /\ n # axb /\ n # naxb /\ n # t1 /\ n # na /\ n # t2
    BY DEF Apart
  <2>2. \A n \in D :
          n # s /\ n # axb /\ n # naxb /\ n # t1 /\ n # na /\ n # t2 =>
            /\ c1[n] = c[n] /\ c2[n] = c[n] /\ c3[n] = c[n] /\ c4[n] = c[n]
            /\ c5[n] = c[n] /\ c6[n] = c[n]
    BY <1>f1, <1>f2, <1>f3, <1>f4, <1>f5, <1>f6
  <2> QED
    BY <2>1, <2>2
<1>10. c7[s].val = c1[s].val /\ c6[t1].val = c4[t1].val
  <2>1. s # axb /\ s # naxb /\ s # t1 /\ s # na /\ s # t2 /\ s # bo /\ t1 # na /\ t1 # t2
    BY DEF Apart
  <2>2. c2[s] = c1[s] /\ c3[s] = c1[s] /\ c4[s] = c1[s] /\ c5[s] = c1[s]
    BY <1>f2, <1>f3, <1>f4, <1>f5, <2>1
  <2>3. c7[s] = c1[s] /\ c5[t1] = c4[t1] /\ c6[t1] = c4[t1]
    BY <1>f5, <1>f6, <1>f7, <2>1, <2>2
  <2> QED
    BY <2>3
<1>11. /\ c1[zero].val = 0 /\ c1[a].val = va /\ c1[b].val = vb
       /\ c2[zero].val = 0 /\ c2[one].val = 1 /\ c3[bi].val = vi
       /\ c4[zero].val = 0 /\ c4[a].val = va /\ c4[one].val = 1 /\ c5[b].val = vb
  BY <1>9
<1> HIDE DEF va, vb, vi
<1>12. c7[s].val = IF va + vb + vi \in {1, 3} THEN 1 ELSE 0
  BY <1>1, <1>8, <1>10, XorValue DEF va, vb, vi, Made
<1>13. c2[axb].val = IF 0 + va + vb \in {1, 3} THEN 1 ELSE 0
  BY <1>2, <1>8, <1>11, XorValue DEF Made
<1>14. c2[axb].val \in {0, 1}
  BY <1>13
<1>15. c3[naxb].val = IF 0 + c2[axb].val + 1 \in {1, 3} THEN 1 ELSE 0
  BY <1>3, <1>11, <1>14, XorValue DEF Made
<1>16. c3[naxb].val \in {0, 1}
  BY <1>15
<1>17. c6[t1].val = IF vi = 1 /\ c3[naxb].val = 1 THEN 1 ELSE 0
  BY <1>4, <1>8, <1>10, <1>11, <1>16, AndValue DEF Made
<1>18. c5[na].val = IF 0 + va + 1 \in {1, 3} THEN 1 ELSE 0
  BY <1>5, <1>8, <1>11, XorValue DEF Made
<1>19. c5[na].val \in {0, 1}
  BY <1>18
<1>20. c6[t2].val = IF c5[na].val = 1 /\ vb = 1 THEN 1 ELSE 0
  BY <1>6, <1>8, <1>11, <1>19, AndValue DEF Made
<1>21. c7[bo].val = IF c6[t1].val = 1 \/ c6[t2].val = 1 THEN 1 ELSE 0
  <2>1. c6[t1].val \in {0, 1} /\ c6[t2].val \in {0, 1}
    BY <1>17, <1>20
  <2> QED
    BY <1>7, <2>1, OrValue DEF Made
<1>22. va - vb - vi = c7[s].val - 2 * c7[bo].val
  BY <1>8, <1>12, <1>13, <1>15, <1>17, <1>18, <1>20, <1>21
<1>23. \A n \in D : n \notin {s, axb, naxb, t1, na, t2, bo} => c7[n] = c[n]
  BY <1>f1, <1>f2, <1>f3, <1>f4, <1>f5, <1>f6, <1>f7, SMTT(30)
<1> QED
  BY <1>q, <1>d7, <1>22, <1>23 DEF va, vb, vi

----------------------------------------------------------------------------
(* The names that a call uses *)

Words == {"a", "b", "s", "cin", "cout", "orig", "out", "x", "y", "z", "zero", "one", "ZERO", "ZERO_19",
          "_4X", "_5X", "_2Y", "_3Y", "_-5X", "_-3Y", "_5X-3Y", "x_cout", "y_cout",
          "_AB", "_AxorB", "_ciAxorB", "_c", "_Bo", "_notAxorB", "_temp1", "_notA", "_temp2"}
Ops == {"add", "sub", "shift", "ports", "extend", "zero", "select", "mux"}

Names == Seq(Words) \X Int
Call == [op : Ops, a : Seq(Words), b : Seq(Words), out : Seq(Words),
         cin : Names, cout : Names, bits : 0 .. (UintMod - 1), shift : 0 .. (UintMod - 1)]

(* Its operands are not among the names it writes, nor is the carry in. *)
Proper(k) ==
  /\ k.op \in {"add", "sub"} =>
       \A p \in {k.a, k.b} : p # k.out /\ Len(p) <= Len(k.out)
  /\ k.op = "add" =>
       k.cin[2] = NoBit /\ k.cout[2] = NoBit /\ k.cin # k.cout /\ k.cout # Wire("zero")

ProperCalls == {k \in Call : Proper(k)}

LEMMA OneElement ==
  ASSUME NEW S, NEW w \in S
  PROVE  <<w>> \in Seq(S) /\ Len(<<w>>) = 1 /\ <<w>>[1] = w
  OBVIOUS

LEMMA TwoElements ==
  ASSUME NEW S, NEW v \in S, NEW w \in S
  PROVE  <<v, w>> \in Seq(S) /\ Len(<<v, w>>) = 2 /\ <<v, w>>[1] = v /\ <<v, w>>[2] = w
  OBVIOUS

(* Suffixes keep the names of one module apart, and apart from its operands. *)
Suffixed(p, w) == p \o <<w>>

LEMMA SuffixIs ==
  ASSUME NEW p \in Seq(Words), NEW w \in Words
  PROVE  /\ Suffixed(p, w) \in Seq(Words) /\ Len(Suffixed(p, w)) = Len(p) + 1
         /\ Suffixed(p, w)[Len(p) + 1] = w
  BY OneElement, ConcatProperties DEF Suffixed

LEMMA SuffixLonger ==
  ASSUME NEW p \in Seq(Words), NEW w \in Words, NEW q \in Seq(Words), Len(q) <= Len(p)
  PROVE  q # Suffixed(p, w)
<1>1. Len(Suffixed(p, w)) = Len(p) + 1 /\ Len(p) \in Nat /\ Len(q) \in Nat
  BY SuffixIs, LenProperties
<1>2. Len(q) # Len(Suffixed(p, w))
  BY <1>1
<1> QED
  BY <1>2

LEMMA SuffixApart ==
  ASSUME NEW p \in Seq(Words), NEW v \in Words, NEW w \in Words, v # w
  PROVE  Suffixed(p, v) # Suffixed(p, w)
<1>1. Suffixed(p, v)[Len(p) + 1] # Suffixed(p, w)[Len(p) + 1]
  BY SuffixIs
<1> QED
  BY <1>1

LEMMA WireName ==
  ASSUME NEW w \in Words
  PROVE  Wire(w) \in Names /\ Wire(w)[1] = <<w>> /\ Wire(w)[2] = NoBit
<1>1. PICK p \in Seq(Words) : p = <<w>>
  BY OneElement
<1>2. NoBit \in Int
  BY DEF NoBit
<1>3. Wire(w) = <<p, NoBit>>
  BY <1>1 DEF Wire
<1>4. PICK b \in Int : b = NoBit
  BY <1>2
<1>5. <<p, b>> \in Seq(Words) \X Int /\ <<p, b>>[1] = p /\ <<p, b>>[2] = b
  OBVIOUS
<1>6. Wire(w) = <<p, b>>
  BY <1>3, <1>4
<1> QED
  BY <1>1, <1>4, <1>5, <1>6 DEF Names

LEMMA WiresApart ==
  ASSUME NEW v \in Words, NEW w \in Words, v # w
  PROVE  Wire(v) # Wire(w)
<1>1. <<v>> # <<w>>
  BY OneElement
<1> QED
  BY <1>1, WireName

LEMMA BitsApart == \A p, q, i, j : Bit(p, i) = Bit(q, j) <=> p = q /\ i = j
  BY DEF Bit

LEMMA AddCallProper ==
  ASSUME NEW a \in Seq(Words), NEW b \in Seq(Words), NEW out \in Seq(Words),
         NEW v \in Words, NEW w \in Words, NEW n \in 0 .. (UintMod - 1),
         a # out, b # out, Len(a) <= Len(out), Len(b) <= Len(out), v # w, w # "zero"
  PROVE  AddCall(a, b, Wire(v), out, Wire(w), n) \in ProperCalls
<1>1. PICK ci : ci = Wire(v)
  OBVIOUS
<1>2. PICK co : co = Wire(w)
  OBVIOUS
<1>3. /\ ci \in Names /\ co \in Names /\ ci[2] = NoBit /\ co[2] = NoBit
      /\ ci # co /\ co # Wire("zero")
  <2>1. "zero" \in Words
    BY DEF Words
  <2> QED
    BY <1>1, <1>2, <2>1, WireName, WiresApart
<1>4. PICK k : k = AddCall(a, b, ci, out, co, n)
  OBVIOUS
<1>5. k = [op |-> "add", a |-> a, b |-> b, out |-> out, cin |-> ci, cout |-> co, bits |-> n, shift |-> 0]
  BY <1>4 DEF AddCall, NoCall
<1>6. k \in Call
  BY <1>3, <1>5, SizesAssumption DEF Call, Ops
<1>7. Proper(k)
  BY <1>3, <1>5 DEF Proper
<1> QED
  BY <1>1, <1>2, <1>4, <1>6, <1>7 DEF ProperCalls

LEMMA Wires == Wire("cin") \in Names /\ Wire("cout") \in Names
<1>1. "cin" \in Words /\ "cout" \in Words
  BY DEF Words
<1> QED
  BY <1>1, WireName

LEMMA SubCallProper ==
  ASSUME NEW a \in Seq(Words), NEW b \in Seq(Words), NEW out \in Seq(Words),
         NEW n \in 0 .. (UintMod - 1), a # out, b # out, Len(a) <= Len(out), Len(b) <= Len(out)
  PROVE  SubCall(a, b, out, n) \in ProperCalls
<1>1. PICK ci : ci = Wire("cin")
  OBVIOUS
<1>2. PICK co : co = Wire("cout")
  OBVIOUS
<1>3. PICK k : k = SubCall(a, b, out, n)
  OBVIOUS
<1>4. k = [op |-> "sub", a |-> a, b |-> b, out |-> out, cin |-> ci, cout |-> co, bits |-> n, shift |-> 0]
  BY <1>1, <1>2, <1>3 DEF SubCall, NoCall
<1>5. k \in Call
  BY <1>1, <1>2, <1>4, Wires, SizesAssumption DEF Call, Ops
<1>6. Proper(k)
  BY <1>4 DEF Proper
<1> QED
  BY <1>3, <1>5, <1>6 DEF ProperCalls

LEMMA ShiftCallProper ==
  ASSUME NEW a \in Seq(Words), NEW out \in Seq(Words), NEW n \in 0 .. (UintMod - 1), NEW s \in 0 .. (UintMod - 1)
  PROVE  ShiftCall(a, out, n, s) \in ProperCalls
<1>1. PICK ci : ci = Wire("cin")
  OBVIOUS
<1>2. PICK co : co = Wire("cout")
  OBVIOUS
<1>3. PICK k : k = ShiftCall(a, out, n, s)
  OBVIOUS
<1>4. k = [op |-> "shift", a |-> a, b |-> <<>>, out |-> out, cin |-> ci, cout |-> co, bits |-> n, shift |-> s]
  BY <1>1, <1>2, <1>3 DEF ShiftCall, NoCall
<1>5. k \in Call
  <2>1. <<>> \in Seq(Words)
    OBVIOUS
  <2> QED
    BY <1>1, <1>2, <1>4, <2>1, Wires DEF Call, Ops
<1>6. Proper(k)
  BY <1>4 DEF Proper
<1> QED
  BY <1>3, <1>5, <1>6 DEF ProperCalls

LEMMA PlainProper ==
  ASSUME NEW op \in Ops \ {"add", "sub"}
  PROVE  Plain(op) \in ProperCalls
<1>1. PICK ci : ci = Wire("cin")
  OBVIOUS
<1>2. PICK co : co = Wire("cout")
  OBVIOUS
<1>3. PICK k : k = Plain(op)
  OBVIOUS
<1>4. k = [op |-> op, a |-> <<>>, b |-> <<>>, out |-> <<>>, cin |-> ci, cout |-> co, bits |-> 0, shift |-> 0]
  BY <1>1, <1>2, <1>3 DEF Plain, NoCall
<1>5. k \in Call
  <2>1. <<>> \in Seq(Words) /\ 0 \in 0 .. (UintMod - 1)
    BY SizesAssumption
  <2> QED
    BY <1>1, <1>2, <1>4, <2>1, Wires DEF Call, Ops
<1>6. Proper(k)
  BY <1>4 DEF Proper
<1> QED
  BY <1>3, <1>5, <1>6 DEF ProperCalls

LEMMA AbsMinProper == AbsMinCalls \in Seq(ProperCalls)
<1> USE DEF x, y, z, fiveX, threeY, minus5X, minus3Y, diff, zeros
<1>a. /\ x \in Seq(Words) /\ Len(x) = 1 /\ y \in Seq(Words) /\ Len(y) = 1
      /\ zeros \in Seq(Words) /\ Len(zeros) = 1
  BY OneElement DEF Words
<1>b. /\ <<"x", "_4X">> \in Seq(Words) /\ Len(<<"x", "_4X">>) = 2
      /\ <<"y", "_2Y">> \in Seq(Words) /\ Len(<<"y", "_2Y">>) = 2
      /\ fiveX \in Seq(Words) /\ Len(fiveX) = 2 /\ threeY \in Seq(Words) /\ Len(threeY) = 2
      /\ minus5X \in Seq(Words) /\ Len(minus5X) = 2 /\ minus3Y \in Seq(Words) /\ Len(minus3Y) = 2
      /\ diff \in Seq(Words) /\ Len(diff) = 2
  <2>1. \A w \in {"x", "y", "z", "_4X", "_2Y", "_5X", "_3Y", "_-5X", "_-3Y", "_5X-3Y"} : w \in Words
    BY DEF Words
  <2> QED
    BY <2>1, TwoElements
<1>c. /\ fiveX # <<"x", "_4X">> /\ threeY # <<"y", "_2Y">> /\ fiveX # minus5X /\ threeY # minus3Y
      /\ fiveX # diff /\ threeY # diff
  OBVIOUS
<1>e. x # fiveX /\ y # threeY /\ zeros # minus5X /\ zeros # minus3Y
  OBVIOUS
<1>d. "ZERO" \in Words /\ "x_cout" \in Words /\ "y_cout" \in Words
  BY DEF Words
<1> HIDE DEF x, y, z, fiveX, threeY, minus5X, minus3Y, diff, zeros
<1>1. Width \in 0 .. (UintMod - 1) /\ 1 \in 0 .. (UintMod - 1) /\ 2 \in 0 .. (UintMod - 1)
  BY SizesAssumption DEF Width
<1>2. /\ Plain("ports") \in ProperCalls /\ Plain("extend") \in ProperCalls /\ Plain("zero") \in ProperCalls
      /\ Plain("select") \in ProperCalls /\ Plain("mux") \in ProperCalls
  BY PlainProper DEF Ops
<1>3. /\ ShiftCall(x, <<"x", "_4X">>, Width, 2) \in ProperCalls
      /\ ShiftCall(y, <<"y", "_2Y">>, Width, 1) \in ProperCalls
  BY <1>1, <1>a, <1>b, <1>c, <1>d, ShiftCallProper
<1>f. Len(x) <= Len(fiveX) /\ Len(<<"x", "_4X">>) <= Len(fiveX) /\ Len(y) <= Len(threeY) /\ Len(<<"y", "_2Y">>) <= Len(threeY)
  BY <1>a, <1>b
<1>g. /\ Len(zeros) <= Len(minus5X) /\ Len(zeros) <= Len(minus3Y) /\ Len(fiveX) <= Len(minus5X)
      /\ Len(threeY) <= Len(minus3Y) /\ Len(fiveX) <= Len(diff) /\ Len(threeY) <= Len(diff)
  BY <1>a, <1>b
<1>4. AddCall(x, <<"x", "_4X">>, Wire("ZERO"), fiveX, Wire("x_cout"), Width) \in ProperCalls
  BY <1>1, <1>a, <1>b, <1>c, <1>d, <1>e, <1>f, <1>g, AddCallProper
<1>5. AddCall(y, <<"y", "_2Y">>, Wire("ZERO"), threeY, Wire("y_cout"), Width) \in ProperCalls
  BY <1>1, <1>a, <1>b, <1>c, <1>d, <1>e, <1>f, <1>g, AddCallProper
<1>6. SubCall(zeros, fiveX, minus5X, Width) \in ProperCalls
  BY <1>1, <1>a, <1>b, <1>c, <1>d, <1>e, <1>f, <1>g, SubCallProper
<1>7. SubCall(zeros, threeY, minus3Y, Width) \in ProperCalls
  BY <1>1, <1>a, <1>b, <1>c, <1>d, <1>e, <1>f, <1>g, SubCallProper
<1>8. SubCall(fiveX, threeY, diff, Width) \in ProperCalls
  BY <1>1, <1>a, <1>b, <1>c, <1>d, <1>e, <1>f, <1>g, SubCallProper
<1> QED
  BY <1>2, <1>3, <1>4, <1>5, <1>6, <1>7, <1>8 DEF AbsMinCalls

(* The calls of every module are proper. *)
LEMMA CallsProper ==
  ASSUME NEW o \in Options
  PROVE  Calls(o) \in Seq(ProperCalls)
<1>1. o \in Option
  BY OptionsAssumption
<1>2. o.bits \in 0 .. (UintMod - 1) /\ o.shift \in 0 .. (UintMod - 1)
  BY <1>1 DEF Option
<1>7. /\ "a" \in Words /\ "b" \in Words /\ "s" \in Words /\ "cin" \in Words /\ "cout" \in Words
  BY DEF Words
<1>8. /\ <<"a">> \in Seq(Words) /\ <<"b">> \in Seq(Words) /\ <<"s">> \in Seq(Words)
      /\ Len(<<"a">>) <= Len(<<"s">>) /\ Len(<<"b">>) <= Len(<<"s">>)
      /\ <<"a">> # <<"s">> /\ <<"b">> # <<"s">>
  BY <1>7, OneElement
<1>3. CASE o.op = "add"
  <2>1. AddCall(<<"a">>, <<"b">>, Wire("cin"), <<"s">>, Wire("cout"), o.bits) \in ProperCalls
    BY <1>2, <1>7, <1>8, AddCallProper
  <2> QED
    BY <1>3, <2>1 DEF Calls
<1>4. CASE o.op = "sub"
  <2>1. SubCall(<<"a">>, <<"b">>, <<"s">>, o.bits) \in ProperCalls
    BY <1>2, <1>7, <1>8, SubCallProper
  <2> QED
    BY <1>4, <2>1 DEF Calls
<1>5. CASE o.op = "shift"
  <2>1. ShiftCall(<<"orig">>, <<"out">>, o.bits, o.shift) \in ProperCalls
    BY <1>2, OneElement, ShiftCallProper DEF Words
  <2> QED
    BY <1>5, <2>1 DEF Calls
<1>6. CASE o.op = "absmin"
  BY <1>6, AbsMinProper DEF Calls
<1> QED
  BY <1>1, <1>3, <1>4, <1>5, <1>6 DEF Option

----------------------------------------------------------------------------
(* What a call creates, as its loop uses it *)

LEMMA LessIsOneLess == \A n \in 1 .. (UintMod - 1) : Less(n) = n - 1
<1>1. \A m \in Nat, k \in Nat : k < m => k % m = k
  OBVIOUS
<1> QED
  BY <1>1, SizesAssumption DEF Less

(* Unsigned addition: the sum is right, or too small by what an unsigned int    *)
(* can count.                                                                *)
LEMMA UnsignedSum ==
  ASSUME NEW k, k.bits \in 0 .. (UintMod - 1), k.shift \in 0 .. (UintMod - 1)
  PROVE  /\ k.bits \in Nat /\ k.shift \in Nat /\ Outputs(k) \in Nat
         /\ k.bits + k.shift < UintMod => Outputs(k) = k.bits + k.shift
         /\ k.bits + k.shift >= UintMod => Outputs(k) < k.shift
<1>1. \A m \in Nat, a \in Nat : a < m => a % m = a
  OBVIOUS
<1>2. \A m \in Nat, a \in Nat : m <= a /\ a < 2 * m => a % m = a - m
  OBVIOUS
<1>3. PICK m \in Nat, n \in Nat, s \in Nat : m = UintMod /\ n = k.bits /\ s = k.shift /\ n < m /\ s < m
  BY SizesAssumption
<1>4. n + s \in Nat /\ n + s < 2 * m /\ Outputs(k) = (n + s) % m
  BY <1>3 DEF Outputs
<1>5. CASE n + s < m
  BY <1>1, <1>3, <1>4, <1>5
<1>6. CASE n + s >= m
  <2>1. Outputs(k) = n + s - m
    BY <1>2, <1>3, <1>4, <1>6
  <2>. QED
    BY <1>3, <1>6, <2>1
<1>. QED
  BY <1>3, <1>4, <1>5, <1>6

(* How far the loops of a shifter run. *)
LEMMA ShiftLoop ==
  ASSUME NEW k, k.op = "shift", k.bits \in 0 .. (UintMod - 1), k.shift \in 0 .. (UintMod - 1)
  PROVE  /\ First(k) = 0 /\ End(k) \in Nat /\ Outputs(k) <= End(k) /\ End(k) <= k.bits + k.shift
         /\ k.bits + k.shift < UintMod => End(k) = k.bits + k.shift
         /\ k.bits + k.shift >= UintMod => End(k) = k.shift
<1>1. First(k) = 0 /\ End(k) = IF Outputs(k) < k.shift THEN k.shift ELSE Outputs(k)
  BY DEF First, End
<1>. QED
  BY <1>1, UnsignedSum, SizesAssumption

LEMMA LoopBounds ==
  ASSUME NEW k \in ProperCalls
  PROVE  First(k) \in Nat /\ End(k) \in Nat /\ (k.op \in {"add", "sub"} => End(k) = k.bits)
<1>1. /\ k.bits \in 0 .. (UintMod - 1) /\ k.shift \in 0 .. (UintMod - 1) /\ k.bits \in Nat
      /\ InBits \in Nat /\ Width \in Nat
  BY SizesAssumption DEF ProperCalls, Call, Width
<1>2. CASE k.op = "shift"
  BY <1>1, <1>2, ShiftLoop
<1>3. CASE k.op # "shift"
  BY <1>1, <1>3 DEF First, End
<1>. QED
  BY <1>2, <1>3

(* The loops over the words of abs(min(5x,3y)) reach all their bits. *)
LEMMA WordLoop ==
  ASSUME NEW k, k.op \in {"add", "sub", "shift"}, k.bits = Width, k.shift \in 0 .. 2
  PROVE  First(k) = 0 /\ End(k) \in Nat /\ Width <= End(k)
<1>1. Width \in 0 .. (UintMod - 1) /\ Width \in Nat /\ Width + 2 < UintMod /\ k.shift \in 0 .. (UintMod - 1)
  BY SizesAssumption DEF Width
<1>2. CASE k.op = "shift"
  <2>1. Width + k.shift < UintMod
    BY <1>1, SizesAssumption
  <2>2. First(k) = 0 /\ End(k) = Width + k.shift
    BY <1>1, <1>2, <2>1, ShiftLoop
  <2>. QED
    BY <1>1, <2>2
<1>3. CASE k.op \in {"add", "sub"}
  BY <1>1, <1>3 DEF First, End
<1>. QED
  BY <1>2, <1>3

LEMMA BitsHave == \A p, n, i : n \in Nat /\ i \in 0 .. (n - 1) => Bit(p, i) \in Bits(p, n)
  BY DEF Bits

LEMMA AddCreates ==
  ASSUME NEW k \in ProperCalls, k.op = "add", NEW i \in 0 .. (k.bits - 1)
  PROVE  /\ Bit(k.a, i) \in Created(k) /\ Bit(k.b, i) \in Created(k) /\ Bit(k.out, i) \in Created(k)
         /\ Bit(k.out \o <<"_AB">>, i) \in Created(k)
         /\ Bit(k.out \o <<"_AxorB">>, i) \in Created(k)
         /\ Bit(k.out \o <<"_ciAxorB">>, i) \in Created(k)
         /\ CarryIn(k, i) \in Created(k) /\ CarryOut(k, i) \in Created(k)
         /\ k.cin \in Created(k) /\ Wire("zero") \in Created(k)
<1>1. k.bits \in 1 .. (UintMod - 1) /\ k.bits \in Nat
  BY SizesAssumption DEF ProperCalls, Call
<1>2. Less(k.bits) = k.bits - 1
  BY <1>1, LessIsOneLess
<1> DEFINE all == UNION {Bits(p, k.bits) : p \in {k.a, k.b, k.out, k.out \o <<"_AB">>, k.out \o <<"_AxorB">>, k.out \o <<"_ciAxorB">>}}
           carries == Bits(k.out \o <<"_c">>, k.bits - 1)
<1>3. Created(k) = all \cup carries \cup {k.cin, k.cout, Wire("zero")}
  BY <1>2 DEF Created
<1>4. \A p \in {k.a, k.b, k.out, k.out \o <<"_AB">>, k.out \o <<"_AxorB">>, k.out \o <<"_ciAxorB">>} :
        Bit(p, i) \in all
  BY <1>1, BitsHave
<1> HIDE DEF all
<1>5. i # 0 => Bit(k.out \o <<"_c">>, i - 1) \in carries
  BY <1>1 DEF Bits
<1>6. i # k.bits - 1 => Bit(k.out \o <<"_c">>, i) \in carries
  BY <1>1 DEF Bits
<1> HIDE DEF carries
<1>7. CarryIn(k, i) \in Created(k) /\ CarryOut(k, i) \in Created(k)
  BY <1>2, <1>3, <1>5, <1>6 DEF CarryIn, CarryOut
<1> QED
  BY <1>3, <1>4, <1>7

LEMMA SubCreates ==
  ASSUME NEW k \in ProperCalls, k.op = "sub", NEW i \in 0 .. (k.bits - 1)
  PROVE  /\ Bit(k.a, i) \in Created(k) /\ Bit(k.b, i) \in Created(k) /\ Bit(k.out, i) \in Created(k)
         /\ Bit(k.out \o <<"_Bo">>, i) \in Created(k)
         /\ Bit(k.out \o <<"_AxorB">>, i) \in Created(k)
         /\ Bit(k.out \o <<"_notAxorB">>, i) \in Created(k)
         /\ Bit(k.out \o <<"_temp1">>, i) \in Created(k)
         /\ Bit(k.out \o <<"_notA">>, i) \in Created(k)
         /\ Bit(k.out \o <<"_temp2">>, i) \in Created(k)
         /\ BorrowIn(k, i) \in Created(k)
         /\ Wire("zero") \in Created(k) /\ Wire("one") \in Created(k)
<1>1. k.bits \in 1 .. (UintMod - 1) /\ k.bits \in Nat
  BY SizesAssumption DEF ProperCalls, Call
<1> DEFINE names == {k.a, k.b, k.out, k.out \o <<"_Bo">>, k.out \o <<"_AxorB">>, k.out \o <<"_notAxorB">>,
                     k.out \o <<"_temp1">>, k.out \o <<"_notA">>, k.out \o <<"_temp2">>}
           all == UNION {Bits(p, k.bits) : p \in names}
<1>2. Created(k) = all \cup {Wire("zero"), Wire("one")}
  BY DEF Created
<1>3. \A p \in names : \A j \in 0 .. (k.bits - 1) : Bit(p, j) \in all
  BY <1>1, BitsHave
<1>4. i # 0 => i - 1 \in 0 .. (k.bits - 1)
  BY <1>1
<1> HIDE DEF all
<1>5. BorrowIn(k, i) \in Created(k)
  BY <1>2, <1>3, <1>4 DEF BorrowIn
<1> QED
  BY <1>2, <1>3, <1>5

----------------------------------------------------------------------------
(* The invariant *)

Running == Building /\ bit # NoBit

(* An adder or a subtractor at work: its nodes are there, its constants are    *)
(* what they are called, and the chain is right so far.                        *)
Ripples ==
  /\ bit \in 0 .. call.bits
  /\ Created(call) \subseteq DOMAIN circuit
  /\ val(Wire("zero")) = 0
  /\ tally.a \in Int /\ tally.b \in Int /\ tally.out \in Int /\ tally.weight \in Int

(* The carry in is kept, and the last carry out is the module's. *)
Adding ==
  /\ Ripples
  /\ val(call.cin) \in {0, 1} /\ val(Carry(call, bit)) \in {0, 1}
  /\ tally.a + tally.b + val(call.cin) = tally.out + tally.weight * val(Carry(call, bit))
Subtracting ==
  /\ Ripples
  /\ val(Wire("one")) = 1
  /\ val(BorrowIn(call, bit)) \in {0, 1}
  /\ tally.a - tally.b = tally.out - tally.weight * val(BorrowIn(call, bit))

GInv ==
  /\ IsCircuit(circuit)
  /\ todo \in Seq(ProperCalls) /\ given \in Stimuli
  /\ bit # NoBit => Building /\ bit \in Nat
  /\ Running /\ call.op = "add" => Adding
  /\ Running /\ call.op = "sub" => Subtracting

(* One more bit of a number: the weights are whatever they are. *)
LEMMA OneMoreBit ==
  ASSUME NEW w \in Int, NEW ta \in Int, NEW tb \in Int, NEW to \in Int, NEW c0 \in Int,
         NEW va \in {0, 1}, NEW vb \in {0, 1}, NEW vi \in {0, 1}, NEW vs \in {0, 1}, NEW vo \in {0, 1}
  PROVE  /\ ta + tb + c0 = to + w * vi /\ va + vb + vi = vs + 2 * vo =>
              (ta + w * va) + (tb + w * vb) + c0 = (to + w * vs) + (2 * w) * vo
         /\ ta - tb = to - w * vi /\ va - vb - vi = vs - 2 * vo =>
              (ta + w * va) - (tb + w * vb) = (to + w * vs) - (2 * w) * vo
         /\ ta + w * va \in Int /\ tb + w * vb \in Int /\ to + w * vs \in Int /\ 2 * w \in Int
<1>1. w * 0 = 0 /\ w * 1 = w /\ (2 * w) * 0 = 0 /\ (2 * w) * 1 = 2 * w
  OBVIOUS
<1>2. va = 0 \/ va = 1
  OBVIOUS
<1>3. vb = 0 \/ vb = 1
  OBVIOUS
<1>4. vi = 0 \/ vi = 1
  OBVIOUS
<1>5. vs = 0 \/ vs = 1
  OBVIOUS
<1>6. vo = 0 \/ vo = 1
  OBVIOUS
<1> QED
  BY <1>1, <1>2, <1>3, <1>4, <1>5, <1>6

LEMMA CallIsProper ==
  ASSUME GInv, Building
  PROVE  call \in ProperCalls
<1>1. todo \in Seq(ProperCalls) /\ todo # <<>>
  BY DEF GInv, Building
<1> QED
  BY <1>1 DEF call

(* The names of one bit of an adder. *)
LEMMA AddNamesApart ==
  ASSUME NEW k \in ProperCalls, k.op = "add", NEW i \in 0 .. (k.bits - 1),
         NEW a, a = Bit(k.a, i), NEW b, b = Bit(k.b, i), NEW ci, ci = CarryIn(k, i),
         NEW s, s = Bit(k.out, i), NEW ab, ab = Bit(k.out \o <<"_AB">>, i),
         NEW axb, axb = Bit(k.out \o <<"_AxorB">>, i), NEW caxb, caxb = Bit(k.out \o <<"_ciAxorB">>, i),
         NEW co, co = CarryOut(k, i)
  PROVE  /\ Apart({a, b, Wire("zero")}, {s, ab, axb, caxb, co}) /\ Apart({ci}, {s, ab, axb})
         /\ Apart({s}, {ab, axb, caxb, co}) /\ Apart({ab}, {axb, caxb})
         /\ k.cin \notin {s, ab, axb, caxb, co}
<1>1. k \in Call /\ Proper(k)
  BY DEF ProperCalls
<1>2. PICK zero : zero = Wire("zero")
  OBVIOUS
<1>3. zero[2] = NoBit /\ k.cin[2] = NoBit /\ k.cout[2] = NoBit /\ k.cin # k.cout /\ k.cout # zero
  BY <1>1, <1>2, WireName DEF Proper, Words
<1>4. k.bits \in Nat /\ i \in Nat /\ i # NoBit /\ i - 1 # i
  BY <1>1, SizesAssumption DEF Call, NoBit
<1>5. k.out \in Seq(Words) /\ k.a \in Seq(Words) /\ k.b \in Seq(Words)
  BY <1>1 DEF Call
<1>6. k.a # k.out /\ k.b # k.out /\ Len(k.a) <= Len(k.out) /\ Len(k.b) <= Len(k.out)
  BY <1>1 DEF Proper
<1>7. Len(k.out) <= Len(k.out)
  BY <1>5, LenProperties
<1>8. PICK pAB, pAxB, pCAB, pC : /\ pAB = k.out \o <<"_AB">> /\ pAxB = k.out \o <<"_AxorB">>
                                 /\ pCAB = k.out \o <<"_ciAxorB">> /\ pC = k.out \o <<"_c">>
  OBVIOUS
<1>s. /\ pAB = Suffixed(k.out, "_AB")
      /\ pAxB = Suffixed(k.out, "_AxorB")
      /\ pCAB = Suffixed(k.out, "_ciAxorB")
      /\ pC = Suffixed(k.out, "_c")
  BY <1>8 DEF Suffixed
<1>9. "_AB" \in Words /\ "_AxorB" \in Words /\ "_ciAxorB" \in Words /\ "_c" \in Words
  BY DEF Words
<1>10. \A q \in {k.a, k.b, k.out} : q # pAB /\ q # pAxB /\ q # pCAB /\ q # pC
  BY <1>5, <1>6, <1>7, <1>s, <1>9, SuffixLonger
<1>11. pAB # pAxB /\ pAB # pCAB /\ pAB # pC /\ pAxB # pCAB /\ pAxB # pC /\ pCAB # pC
  BY <1>5, <1>s, <1>9, SuffixApart
<1>12. a = Bit(k.a, i) /\ b = Bit(k.b, i) /\ s = Bit(k.out, i) /\ ab = Bit(pAB, i) /\ axb = Bit(pAxB, i) /\ caxb = Bit(pCAB, i)
  BY <1>8
<1>13. a # s /\ a # ab /\ a # axb /\ a # caxb /\ b # s /\ b # ab /\ b # axb /\ b # caxb
  BY <1>6, <1>10, <1>12, BitsApart
<1>14. s # ab /\ s # axb /\ s # caxb /\ ab # axb /\ ab # caxb /\ axb # caxb
  BY <1>10, <1>11, <1>12, BitsApart
<1>15. \A p : Bit(p, i)[2] = i
  BY DEF Bit
<1>16. \A n \in {a, b, s, ab, axb, caxb} : n # zero /\ n # k.cin /\ n # k.cout
  BY <1>3, <1>4, <1>12, <1>15
<1>17. \A j : Bit(pC, j) # a /\ Bit(pC, j) # b /\ Bit(pC, j) # s /\ Bit(pC, j) # ab /\ Bit(pC, j) # axb /\ Bit(pC, j) # caxb
  BY <1>10, <1>11, <1>12, BitsApart
<1>18. Bit(pC, i)[2] = i
  BY <1>15
<1>19. ci = k.cin \/ \E j : ci = Bit(pC, j)
  BY <1>8 DEF CarryIn
<1>20. co = k.cout \/ co = Bit(pC, i)
  BY <1>8 DEF CarryOut
<1>21. co # zero /\ co # k.cin
  BY <1>3, <1>4, <1>18, <1>20
<1>22. \A n \in {a, b, s, ab, axb, caxb} : n # co
  BY <1>16, <1>17, <1>20
<1>23. ci # s /\ ci # ab /\ ci # axb
  BY <1>16, <1>17, <1>19
<1> QED
  BY <1>2, <1>13, <1>14, <1>16, <1>21, <1>22, <1>23 DEF Apart

(* The names of one bit of a subtractor. *)
LEMMA SubNamesApart ==
  ASSUME NEW k \in ProperCalls, k.op = "sub", NEW i \in 0 .. (k.bits - 1),
         NEW a, a = Bit(k.a, i), NEW b, b = Bit(k.b, i), NEW bi, bi = BorrowIn(k, i),
         NEW s, s = Bit(k.out, i), NEW axb, axb = Bit(k.out \o <<"_AxorB">>, i),
         NEW naxb, naxb = Bit(k.out \o <<"_notAxorB">>, i), NEW t1, t1 = Bit(k.out \o <<"_temp1">>, i),
         NEW na, na = Bit(k.out \o <<"_notA">>, i), NEW t2, t2 = Bit(k.out \o <<"_temp2">>, i),
         NEW bo, bo = Bit(k.out \o <<"_Bo">>, i)
  PROVE  /\ Apart({a, b, bi, Wire("zero"), Wire("one")}, {s, axb, naxb, t1, na, t2, bo})
         /\ Apart({s}, {axb, naxb, t1, na, t2, bo}) /\ Apart({t1}, {na, t2})
<1>1. k \in Call /\ Proper(k)
  BY DEF ProperCalls
<1>2. PICK zero, one : zero = Wire("zero") /\ one = Wire("one")
  OBVIOUS
<1>3. zero[2] = NoBit /\ one[2] = NoBit
  BY <1>2, WireName DEF Words
<1>4. k.bits \in Nat /\ i \in Nat /\ i # NoBit /\ i - 1 # i
  BY <1>1, SizesAssumption DEF Call, NoBit
<1>5. k.out \in Seq(Words) /\ k.a \in Seq(Words) /\ k.b \in Seq(Words)
  BY <1>1 DEF Call
<1>6. k.a # k.out /\ k.b # k.out /\ Len(k.a) <= Len(k.out) /\ Len(k.b) <= Len(k.out)
  BY <1>1 DEF Proper
<1>7. Len(k.out) <= Len(k.out)
  BY <1>5, LenProperties
<1>8. PICK pX, pN, p1, pA, p2, pB :
        /\ pX = k.out \o <<"_AxorB">> /\ pN = k.out \o <<"_notAxorB">> /\ p1 = k.out \o <<"_temp1">>
        /\ pA = k.out \o <<"_notA">> /\ p2 = k.out \o <<"_temp2">> /\ pB = k.out \o <<"_Bo">>
  OBVIOUS
<1>s. /\ pX = Suffixed(k.out, "_AxorB")
      /\ pN = Suffixed(k.out, "_notAxorB")
      /\ p1 = Suffixed(k.out, "_temp1")
      /\ pA = Suffixed(k.out, "_notA")
      /\ p2 = Suffixed(k.out, "_temp2")
      /\ pB = Suffixed(k.out, "_Bo")
  BY <1>8 DEF Suffixed
<1>9. /\ "_AxorB" \in Words /\ "_notAxorB" \in Words /\ "_temp1" \in Words
      /\ "_notA" \in Words /\ "_temp2" \in Words /\ "_Bo" \in Words
  BY DEF Words
<1>10. \A q \in {k.a, k.b, k.out} : q # pX /\ q # pN /\ q # p1 /\ q # pA /\ q # p2 /\ q # pB
  BY <1>5, <1>6, <1>7, <1>s, <1>9, SuffixLonger
<1>11. p1 # pA /\ p1 # p2 /\ pB # pX /\ pB # pN /\ pB # p1 /\ pB # pA /\ pB # p2
  BY <1>5, <1>s, <1>9, SuffixApart
<1>12. /\ a = Bit(k.a, i) /\ b = Bit(k.b, i) /\ s = Bit(k.out, i)
       /\ axb = Bit(pX, i) /\ naxb = Bit(pN, i) /\ t1 = Bit(p1, i)
       /\ na = Bit(pA, i) /\ t2 = Bit(p2, i) /\ bo = Bit(pB, i)
  BY <1>8
<1>13. /\ a # s /\ a # axb /\ a # naxb /\ a # t1 /\ a # na /\ a # t2 /\ a # bo
       /\ b # s /\ b # axb /\ b # naxb /\ b # t1 /\ b # na /\ b # t2 /\ b # bo
  BY <1>6, <1>10, <1>12, BitsApart
<1>14. s # axb /\ s # naxb /\ s # t1 /\ s # na /\ s # t2 /\ s # bo /\ t1 # na /\ t1 # t2
  BY <1>10, <1>11, <1>12, BitsApart
<1>15. \A p : Bit(p, i)[2] = i
  BY DEF Bit
<1>16. \A n \in {s, axb, naxb, t1, na, t2, bo} : n # zero /\ n # one
  BY <1>3, <1>4, <1>12, <1>15
<1>17. bi = zero \/ bi = Bit(pB, i - 1)
  BY <1>2, <1>8 DEF BorrowIn
<1>18. \A n \in {s, axb, naxb, t1, na, t2, bo} : Bit(pB, i - 1) # n
  BY <1>4, <1>10, <1>11, <1>12, BitsApart
<1>19. \A n \in {s, axb, naxb, t1, na, t2, bo} : bi # n
  BY <1>16, <1>17, <1>18
<1> QED
  BY <1>2, <1>13, <1>14, <1>16, <1>19 DEF Apart

----------------------------------------------------------------------------
(* The steps *)

LEMMA CarryIs ==
  ASSUME NEW k \in ProperCalls, NEW i \in 0 .. (k.bits - 1)
  PROVE  CarryIn(k, i) = Carry(k, i) /\ CarryOut(k, i) = Carry(k, i + 1)
<1>1. k.bits \in 1 .. (UintMod - 1) /\ k.bits \in Nat /\ i \in Nat /\ i < k.bits /\ i # k.bits
  BY SizesAssumption DEF ProperCalls, Call
<1>2. Less(k.bits) = k.bits - 1
  BY <1>1, LessIsOneLess
<1>3. CarryIn(k, i) = Carry(k, i)
  BY <1>1 DEF CarryIn, Carry
<1>4. i + 1 # 0 /\ (i + 1) - 1 = i /\ (i + 1 = k.bits <=> i = k.bits - 1)
  BY <1>1
<1> QED
  BY <1>2, <1>3, <1>4 DEF CarryOut, Carry

LEMMA AddBitStep ==
  ASSUME GInv, AddBit
  PROVE  GInv'
<1>1. PICK k \in ProperCalls : k = call
  BY CallIsProper DEF AddBit, At
<1>2. Building /\ bit # NoBit /\ call.op = "add" /\ k.op = "add" /\ bit < End(call)
  BY <1>1 DEF AddBit, At
<1>3. bit \in Nat /\ bit \in 0 .. (k.bits - 1) /\ k.bits \in Nat
  <2>1. bit \in Nat /\ bit < k.bits
    BY <1>1, <1>2 DEF GInv, End
  <2>2. k.bits \in Nat
    BY SizesAssumption DEF ProperCalls, Call
  <2> QED
    BY <2>1, <2>2
<1>4. /\ phase' = phase /\ todo' = todo /\ given' = given /\ bit' = bit + 1
  BY DEF AddBit, Advance
<1>5. Adding
  BY <1>2 DEF GInv, Running
<1> DEFINE D == DOMAIN circuit
           a    == Bit(k.a, bit)
           b    == Bit(k.b, bit)
           ci   == CarryIn(k, bit)
           s    == Bit(k.out, bit)
           ab   == Bit(k.out \o <<"_AB">>, bit)
           axb  == Bit(k.out \o <<"_AxorB">>, bit)
           caxb == Bit(k.out \o <<"_ciAxorB">>, bit)
           co   == CarryOut(k, bit)
           zero == Wire("zero")
           c5 == AdderGates(circuit, a, b, ci, zero, s, ab, axb, caxb, co)
<1>6. circuit' = c5 /\ Bump(a, b, s)
  BY <1>1 DEF AddBit, AdderGates
<1>7. /\ a \in D /\ b \in D /\ ci \in D /\ zero \in D /\ s \in D /\ ab \in D
      /\ axb \in D /\ caxb \in D /\ co \in D /\ k.cin \in D
  BY <1>1, <1>2, <1>3, <1>5, AddCreates DEF Adding, Ripples
<1>8. /\ Apart({a, b, zero}, {s, ab, axb, caxb, co}) /\ Apart({ci}, {s, ab, axb})
      /\ Apart({s}, {ab, axb, caxb, co}) /\ Apart({ab}, {axb, caxb})
      /\ k.cin \notin {s, ab, axb, caxb, co}
  BY <1>2, <1>3, AddNamesApart
<1>9. IsCircuit(circuit) /\ circuit[zero].val = 0
  BY <1>5 DEF GInv, Adding, Ripples, val
<1> HIDE DEF D, a, b, ci, s, ab, axb, caxb, co, zero
<1>10. /\ DOMAIN c5 = D /\ IsCircuit(c5)
       /\ \A n \in D : n \notin {s, ab, axb, caxb, co} => c5[n] = circuit[n]
       /\ circuit[a].val + circuit[b].val + circuit[ci].val = c5[s].val + 2 * c5[co].val
  <2>1. DOMAIN circuit = D
    BY DEF D
  <2>2. AdderApart(a, b, ci, zero, s, ab, axb, caxb, co)
    BY <1>8 DEF AdderApart
  <2>3. PICK d : d = c5
    OBVIOUS
  <2> QED
    BY <1>7, <1>9, <2>1, <2>2, <2>3, FullAdder
<1> HIDE DEF c5
<1>11. zero \notin {s, ab, axb, caxb, co}
  BY <1>8 DEF Apart
<1>12. circuit'[zero].val = 0 /\ circuit'[k.cin].val = circuit[k.cin].val
  BY <1>6, <1>7, <1>8, <1>9, <1>10, <1>11
<1>13. /\ circuit[a].val \in {0, 1} /\ circuit[b].val \in {0, 1} /\ circuit[ci].val \in {0, 1}
       /\ c5[s].val \in {0, 1} /\ c5[co].val \in {0, 1} /\ circuit[k.cin].val \in {0, 1}
  BY <1>7, <1>9, <1>10 DEF IsCircuit, IsNode, D
<1>14. PICK va \in {0, 1}, vb \in {0, 1}, vi \in {0, 1}, vs \in {0, 1}, vo \in {0, 1}, c0 \in {0, 1} :
          /\ va = circuit[a].val /\ vb = circuit[b].val /\ vi = circuit[ci].val
          /\ vs = c5[s].val /\ vo = c5[co].val /\ c0 = circuit[k.cin].val
  BY <1>13
<1>15. PICK w \in Int, ta \in Int, tb \in Int, to \in Int :
          w = tally.weight /\ ta = tally.a /\ tb = tally.b /\ to = tally.out
  BY <1>5 DEF Adding, Ripples
<1>16. ta + tb + c0 = to + w * vi
  BY <1>1, <1>3, <1>5, <1>14, <1>15, CarryIs DEF Adding, val, ci
<1>17. va + vb + vi = vs + 2 * vo
  BY <1>10, <1>14
<1>18. /\ (ta + w * va) + (tb + w * vb) + c0 = (to + w * vs) + (2 * w) * vo
       /\ ta + w * va \in Int /\ tb + w * vb \in Int /\ to + w * vs \in Int /\ 2 * w \in Int
  <2>1. c0 \in Int
    BY <1>14
  <2> QED
    BY <1>16, <1>17, <2>1, OneMoreBit
<1>19. /\ tally'.a = ta + w * va /\ tally'.b = tb + w * vb /\ tally'.out = to + w * vs
       /\ tally'.weight = 2 * w
  BY <1>6, <1>14, <1>15 DEF Bump
<1>20. call' = call /\ call' = k
  BY <1>1, <1>4 DEF call
<1>21. PICK j : j = bit + 1 /\ j = bit' /\ j \in 0 .. k.bits /\ j \in Nat /\ j # NoBit
  BY <1>3, <1>4 DEF NoBit
<1>22. Carry(k, j) = co
  BY <1>3, <1>21, CarryIs DEF co
<1>23. Ripples'
  <2>1. Created(k) \subseteq DOMAIN circuit'
    BY <1>1, <1>5, <1>6, <1>10 DEF Adding, Ripples, D
  <2>2. bit' \in 0 .. call'.bits
    BY <1>20, <1>21
  <2>3. Created(call') \subseteq DOMAIN circuit'
    BY <1>20, <2>1
  <2> QED
    BY <1>12, <1>18, <1>19, <2>2, <2>3 DEF Ripples, val, zero
<1>24. Adding'
  <2>1. circuit'[call'.cin].val = c0 /\ circuit'[Carry(call', bit')].val = vo
    BY <1>6, <1>12, <1>14, <1>20, <1>21, <1>22
  <2> QED
    BY <1>18, <1>19, <1>23, <2>1 DEF Adding, val
<1>25. call'.op # "sub" /\ Building'
  BY <1>2, <1>4, <1>20 DEF Building
<1>26. todo' \in Seq(ProperCalls) /\ given' \in Stimuli
  BY <1>4 DEF GInv
<1>27. IsCircuit(circuit')
  BY <1>6, <1>10
<1> QED
  BY <1>21, <1>24, <1>25, <1>26, <1>27 DEF GInv

LEMMA SubBitStep ==
  ASSUME GInv, SubBit
  PROVE  GInv'
<1>1. PICK k \in ProperCalls : k = call
  BY CallIsProper DEF SubBit, At
<1>2. Building /\ bit # NoBit /\ call.op = "sub" /\ k.op = "sub" /\ bit < End(call)
  BY <1>1 DEF SubBit, At
<1>3. bit \in Nat /\ bit \in 0 .. (k.bits - 1) /\ k.bits \in Nat
  <2>1. bit \in Nat /\ bit < k.bits
    BY <1>1, <1>2 DEF GInv, End
  <2>2. k.bits \in Nat
    BY SizesAssumption DEF ProperCalls, Call
  <2> QED
    BY <2>1, <2>2
<1>4. /\ phase' = phase /\ todo' = todo /\ given' = given /\ bit' = bit + 1
  BY DEF SubBit, Advance
<1>5. Subtracting
  BY <1>2 DEF GInv, Running
<1> DEFINE D == DOMAIN circuit
           a    == Bit(k.a, bit)
           b    == Bit(k.b, bit)
           bi   == BorrowIn(k, bit)
           s    == Bit(k.out, bit)
           axb  == Bit(k.out \o <<"_AxorB">>, bit)
           naxb == Bit(k.out \o <<"_notAxorB">>, bit)
           t1   == Bit(k.out \o <<"_temp1">>, bit)
           na   == Bit(k.out \o <<"_notA">>, bit)
           t2   == Bit(k.out \o <<"_temp2">>, bit)
           bo   == Bit(k.out \o <<"_Bo">>, bit)
           zero == Wire("zero")
           one  == Wire("one")
           c7 == SubtractorGates(circuit, a, b, bi, zero, one, s, axb, naxb, t1, na, t2, bo)
<1>6. circuit' = c7 /\ Bump(a, b, s)
  BY <1>1 DEF SubBit, SubtractorGates
<1>7. /\ a \in D /\ b \in D /\ bi \in D /\ zero \in D /\ one \in D /\ s \in D /\ axb \in D
      /\ naxb \in D /\ t1 \in D /\ na \in D /\ t2 \in D /\ bo \in D
  BY <1>1, <1>2, <1>3, <1>5, SubCreates DEF Subtracting, Ripples
<1>8. SubtractorApart(a, b, bi, zero, one, s, axb, naxb, t1, na, t2, bo)
  BY <1>2, <1>3, SubNamesApart DEF SubtractorApart
<1>9. IsCircuit(circuit) /\ circuit[zero].val = 0 /\ circuit[one].val = 1
  BY <1>5 DEF GInv, Subtracting, Ripples, val
<1> HIDE DEF D, a, b, bi, s, axb, naxb, t1, na, t2, bo, zero, one
<1>10. /\ DOMAIN c7 = D /\ IsCircuit(c7)
       /\ \A n \in D : n \notin {s, axb, naxb, t1, na, t2, bo} => c7[n] = circuit[n]
       /\ circuit[a].val - circuit[b].val - circuit[bi].val = c7[s].val - 2 * c7[bo].val
  <2>1. DOMAIN circuit = D
    BY DEF D
  <2>2. PICK d : d = c7
    OBVIOUS
  <2> QED
    BY <1>7, <1>8, <1>9, <2>1, <2>2, FullSubtractor
<1> HIDE DEF c7
<1>11. zero \notin {s, axb, naxb, t1, na, t2, bo} /\ one \notin {s, axb, naxb, t1, na, t2, bo}
  BY <1>8 DEF SubtractorApart, Apart
<1>12. circuit'[zero].val = 0 /\ circuit'[one].val = 1
  BY <1>6, <1>7, <1>9, <1>10, <1>11
<1>13. /\ circuit[a].val \in {0, 1} /\ circuit[b].val \in {0, 1} /\ circuit[bi].val \in {0, 1}
       /\ c7[s].val \in {0, 1} /\ c7[bo].val \in {0, 1}
  BY <1>7, <1>9, <1>10 DEF IsCircuit, IsNode, D
<1>14. PICK va \in {0, 1}, vb \in {0, 1}, vi \in {0, 1}, vs \in {0, 1}, vo \in {0, 1} :
          /\ va = circuit[a].val /\ vb = circuit[b].val /\ vi = circuit[bi].val
          /\ vs = c7[s].val /\ vo = c7[bo].val
  BY <1>13
<1>15. PICK w \in Int, ta \in Int, tb \in Int, to \in Int :
          w = tally.weight /\ ta = tally.a /\ tb = tally.b /\ to = tally.out
  BY <1>5 DEF Subtracting, Ripples
<1>16. ta - tb = to - w * vi
  BY <1>1, <1>5, <1>14, <1>15 DEF Subtracting, val, bi
<1>17. va - vb - vi = vs - 2 * vo
  BY <1>10, <1>14
<1>18. /\ (ta + w * va) - (tb + w * vb) = (to + w * vs) - (2 * w) * vo
       /\ ta + w * va \in Int /\ tb + w * vb \in Int /\ to + w * vs \in Int /\ 2 * w \in Int
  <2>1. 0 \in Int
    OBVIOUS
  <2> QED
    BY <1>16, <1>17, <2>1, OneMoreBit
<1>19. /\ tally'.a = ta + w * va /\ tally'.b = tb + w * vb /\ tally'.out = to + w * vs
       /\ tally'.weight = 2 * w
  BY <1>6, <1>14, <1>15 DEF Bump
<1>20. call' = call /\ call' = k
  BY <1>1, <1>4 DEF call
<1>21. PICK j : j = bit + 1 /\ j = bit' /\ j \in 0 .. k.bits /\ j \in Nat /\ j # NoBit /\ j # 0 /\ j - 1 = bit
  BY <1>3, <1>4 DEF NoBit
<1>22. BorrowIn(k, j) = bo
  BY <1>21 DEF BorrowIn, bo
<1>23. Ripples'
  <2>1. Created(k) \subseteq DOMAIN circuit'
    BY <1>1, <1>5, <1>6, <1>10 DEF Subtracting, Ripples, D
  <2>2. bit' \in 0 .. call'.bits
    BY <1>20, <1>21
  <2>3. Created(call') \subseteq DOMAIN circuit'
    BY <1>20, <2>1
  <2> QED
    BY <1>12, <1>18, <1>19, <2>2, <2>3 DEF Ripples, val, zero
<1>24. Subtracting'
  <2>1. circuit'[BorrowIn(call', bit')].val = vo
    BY <1>6, <1>14, <1>20, <1>21, <1>22
  <2>2. circuit'[Wire("one")].val = 1
    BY <1>12 DEF one
  <2> QED
    BY <1>18, <1>19, <1>23, <2>1, <2>2 DEF Subtracting, val
<1>25. call'.op # "add" /\ Building'
  BY <1>2, <1>4, <1>20 DEF Building
<1>26. todo' \in Seq(ProperCalls) /\ given' \in Stimuli
  BY <1>4 DEF GInv
<1>27. IsCircuit(circuit')
  BY <1>6, <1>10
<1> QED
  BY <1>21, <1>24, <1>25, <1>26, <1>27 DEF GInv

(* The other gates belong to calls that are neither. *)
LEMMA OtherBitStep ==
  ASSUME GInv, ShiftBit \/ ExtendBit \/ Select \/ MuxBit
  PROVE  GInv'
<1>1. /\ Building /\ bit # NoBit /\ call.op \notin {"add", "sub"}
      /\ phase' = phase /\ todo' = todo /\ given' = given /\ bit' = bit + 1
  BY DEF ShiftBit, ExtendBit, Select, MuxBit, At, Advance
<1>2. IsCircuit(circuit)
  BY DEF GInv
<1>3. IsCircuit(circuit')
  <2>1. CASE ShiftBit
    BY <1>2, <2>1, GateKeeps DEF ShiftBit
  <2>2. CASE ExtendBit
    BY <1>2, <2>2, GateKeeps DEF ExtendBit
  <2>3. CASE Select
    BY <1>2, <2>3, GateKeeps DEF Select, SignOfEither
  <2>4. CASE MuxBit
    BY <1>2, <2>4, GateKeeps DEF MuxBit, Mux4
  <2> QED
    BY <2>1, <2>2, <2>3, <2>4
<1>4. Building' /\ call' = call
  BY <1>1 DEF Building, call
<1>5. bit' \in Nat
  BY <1>1 DEF GInv
<1> QED
  BY <1>1, <1>3, <1>4, <1>5 DEF GInv

(* Whatever a call creates, its nodes are nodes and its constants constant. *)
LEMMA CreateAllStep ==
  ASSUME GInv, CreateAll
  PROVE  GInv'
<1>1. PICK k \in ProperCalls : k = call
  BY CallIsProper DEF CreateAll
<1> DEFINE c == CreateNodes(circuit, Created(k), given)
<1>2. /\ Building /\ phase' = phase /\ todo' = todo /\ given' = given
      /\ bit' = First(k) /\ tally' = NoTally
      /\ circuit' = [n \in DOMAIN c |->
                       IF n \in ZeroNodes(k) THEN ConstantNode("zero")
                       ELSE IF n \in OneNodes(k) THEN ConstantNode("one")
                       ELSE c[n]]
  BY <1>1 DEF CreateAll
<1>3. IsNode(NewNode(0)) /\ IsNode(NewNode(1)) /\ IsNode(ConstantNode("zero")) /\ IsNode(ConstantNode("one"))
  BY DEF IsNode, NewNode, ConstantNode
<1>4. ConstantNode("zero").val = 0 /\ ConstantNode("one").val = 1
  BY DEF ConstantNode
<1>5. DOMAIN c = DOMAIN circuit \cup Created(k)
  BY DEF CreateNodes
<1>6. IsCircuit(c)
  <2>1. \A n \in DOMAIN given : given[n] \in {0, 1}
    BY StimuliAssumption DEF GInv
  <2>2. \A n \in DOMAIN c : (n \in DOMAIN circuit /\ c[n] = circuit[n]) \/ c[n] \in {NewNode(0), NewNode(1)}
    BY <2>1 DEF CreateNodes
  <2>3. \A n \in DOMAIN circuit : IsNode(circuit[n])
    BY DEF GInv, IsCircuit
  <2> QED
    BY <1>3, <2>2, <2>3 DEF IsCircuit
<1> HIDE DEF c
<1>7. DOMAIN circuit' = DOMAIN circuit \cup Created(k) /\ IsCircuit(circuit')
  BY <1>2, <1>3, <1>5, <1>6 DEF IsCircuit
<1>8. call' = k
  BY <1>1, <1>2 DEF call
<1>9. Building' /\ bit' \in Nat
  BY <1>2, SizesAssumption DEF Building, First
<1>10. k.bits \in Nat
  BY SizesAssumption DEF ProperCalls, Call
<1>11. k.op \in {"add", "sub"} => Ripples' /\ bit' = 0
  <2> SUFFICES ASSUME k.op \in {"add", "sub"} PROVE Ripples' /\ bit' = 0
    OBVIOUS
  <2>1. bit' = 0 /\ 0 \in 0 .. k.bits
    BY <1>2, <1>10 DEF First
  <2>2. Wire("zero") \in Created(k) /\ Wire("zero") \in ZeroNodes(k)
    BY DEF Created, ZeroNodes
  <2>3. circuit'[Wire("zero")].val = 0
    BY <1>2, <1>4, <1>5, <2>2
  <2>4. bit' \in 0 .. call'.bits /\ Created(call') \subseteq DOMAIN circuit'
    BY <1>7, <1>8, <2>1
  <2>5. tally'.a = 0 /\ tally'.b = 0 /\ tally'.out = 0 /\ tally'.weight = 1
    BY <1>2 DEF NoTally
  <2> QED
    BY <2>1, <2>3, <2>4, <2>5 DEF Ripples, val
<1>12. k.op = "add" => Adding'
  <2> SUFFICES ASSUME k.op = "add" PROVE Adding'
    OBVIOUS
  <2>1. k.cin \in Created(k) /\ Carry(k, 0) = k.cin
    BY DEF Created, Carry
  <2>2. PICK v \in {0, 1} : v = circuit'[k.cin].val
    BY <1>7, <2>1 DEF IsCircuit, IsNode
  <2>3. circuit'[call'.cin].val = v /\ circuit'[Carry(call', bit')].val = v
    BY <1>8, <1>11, <2>1, <2>2
  <2>4. tally'.a = 0 /\ tally'.b = 0 /\ tally'.out = 0 /\ tally'.weight = 1
    BY <1>2 DEF NoTally
  <2>5. 0 + 0 + v = 0 + 1 * v
    OBVIOUS
  <2> QED
    BY <1>11, <2>3, <2>4, <2>5 DEF Adding, val
<1>13. k.op = "sub" => Subtracting'
  <2> SUFFICES ASSUME k.op = "sub" PROVE Subtracting'
    OBVIOUS
  <2>1. "one" \in Words /\ "zero" \in Words
    BY DEF Words
  <2>2. Wire("one") # Wire("zero")
    BY <2>1, WiresApart
  <2>3. Wire("one") \in Created(k) /\ Wire("one") \in OneNodes(k) /\ Wire("one") \notin ZeroNodes(k)
    BY <2>2 DEF Created, OneNodes, ZeroNodes
  <2>4. circuit'[Wire("one")].val = 1
    BY <1>2, <1>4, <1>5, <2>3
  <2>5. BorrowIn(call', bit') = Wire("zero")
    BY <1>11 DEF BorrowIn
  <2>6. circuit'[BorrowIn(call', bit')].val = 0
    BY <1>11, <2>5 DEF Ripples, val
  <2>7. tally'.a = 0 /\ tally'.b = 0 /\ tally'.out = 0 /\ tally'.weight = 1
    BY <1>2 DEF NoTally
  <2> QED
    BY <1>11, <2>4, <2>6, <2>7 DEF Subtracting, val
<1>14. todo' \in Seq(ProperCalls) /\ given' \in Stimuli
  BY <1>2 DEF GInv
<1> QED
  BY <1>7, <1>8, <1>9, <1>12, <1>13, <1>14 DEF GInv

----------------------------------------------------------------------------
(* The theorem *)

LEMMA GInitially == Init => GInv
<1> SUFFICES ASSUME Init PROVE GInv
  OBVIOUS
<1>1. IsCircuit(circuit)
  BY DEF Init, IsCircuit
<1>2. todo \in Seq(ProperCalls) /\ given \in Stimuli /\ bit = NoBit
  BY DEF Init
<1> QED
  BY <1>1, <1>2 DEF GInv, Running

LEMMA GSteps == GInv /\ [Next]_vars => GInv'
<1> SUFFICES ASSUME GInv, [Next]_vars PROVE GInv'
  OBVIOUS
<1>1. ASSUME NEW o \in Options, ReadOption(o) PROVE GInv'
  <2>1. bit = NoBit /\ bit' = NoBit
    BY <1>1 DEF ReadOption, GInv, Building
  <2>2. todo' \in Seq(ProperCalls) /\ given' = given /\ circuit' = circuit
    BY <1>1, CallsProper DEF ReadOption
  <2> QED
    BY <2>1, <2>2 DEF GInv, Running
<1>2. CASE CreateAll
  BY <1>2, CreateAllStep
<1>3. CASE Exhaust
  <2>1. bit' = NoBit /\ todo' = todo /\ given' = given /\ circuit' = circuit
    BY <1>3 DEF Exhaust
  <2> QED
    BY <2>1 DEF GInv, Running
<1>4. CASE Build
  BY <1>4, AddBitStep, SubBitStep, OtherBitStep DEF Build
<1>5. CASE EndCall
  <2>1. bit' = NoBit /\ todo' = Tail(todo) /\ given' = given /\ circuit' = circuit /\ todo # <<>>
    BY <1>5 DEF EndCall, Building
  <2>2. todo' \in Seq(ProperCalls)
    BY <2>1 DEF GInv
  <2> QED
    BY <2>1, <2>2 DEF GInv, Running
<1>6. CASE Save
  <2>1. bit = NoBit /\ bit' = NoBit /\ todo' = todo /\ given' = given
    BY <1>6 DEF Save, GInv, Building
  <2>2. IsCircuit(circuit')
    <3>1. IsCircuit(circuit)
      BY DEF GInv
    <3>2. PICK ins, outs : circuit' = SetPorts(circuit, ins, outs)
      BY <1>6 DEF Save
    <3>3. DOMAIN circuit' = DOMAIN circuit
      BY <3>2 DEF SetPorts
    <3>4. \A n \in DOMAIN circuit : \E t : circuit'[n] = [circuit[n] EXCEPT !.type = t]
      BY <3>2 DEF SetPorts
    <3>5. \A r, t : IsNode(r) => IsNode([r EXCEPT !.type = t])
      BY DEF IsNode
    <3> QED
      BY <3>1, <3>3, <3>4, <3>5 DEF IsCircuit
  <2> QED
    BY <2>1, <2>2 DEF GInv, Running
<1>7. CASE Finish
  <2>1. bit = NoBit /\ UNCHANGED <<bit, todo, given, circuit>>
    BY <1>7 DEF Finish, GInv, Building
  <2> QED
    BY <2>1 DEF GInv, Running
<1>8. CASE UNCHANGED vars
  BY <1>8 DEF vars, control, GInv, Running, Adding, Subtracting, Ripples, Building, call, val
<1>9. CASE AssertFails
  <2>1. bit' = NoBit /\ todo' = todo /\ given' = given /\ circuit' = circuit
    BY <1>9 DEF AssertFails
  <2> QED
    BY <2>1 DEF GInv, Running
<1> QED
  BY <1>1, <1>2, <1>3, <1>4, <1>5, <1>6, <1>7, <1>8, <1>9 DEF Next, Stopped

(* modules.cpp:46-100, 150-212: the carry and the borrow chain of every adder  *)
(* and subtractor, also of those inside abs(min(5x,3y)), are right for every   *)
(* width, every value of the inputs and every sequence of options.             *)
THEOREM RippleIsRight == Spec => []RippleRight
<1>1. GInv => RippleRight
  BY DEF GInv, Running, Adding, Subtracting, RippleRight
<1> QED
  BY <1>1, GInitially, GSteps, PTL DEF Spec

----------------------------------------------------------------------------
(* The calls of an option *)

(* A call by its fields. *)
CallOf(op, a, b, out, ci, co, n, s) ==
  [op |-> op, a |-> a, b |-> b, out |-> out, cin |-> ci, cout |-> co, bits |-> n, shift |-> s]

LEMMA AddFields ==
  ASSUME NEW a \in Seq(Words), NEW b \in Seq(Words), NEW out \in Seq(Words), NEW ci \in Names, NEW co \in Names,
         NEW n \in Nat
  PROVE  AddCall(a, b, ci, out, co, n) = CallOf("add", a, b, out, ci, co, n, 0)
<1>1. PICK k : k = AddCall(a, b, ci, out, co, n)
  OBVIOUS
<1>2. k = [op |-> "add", a |-> a, b |-> b, out |-> out, cin |-> ci, cout |-> co, bits |-> n, shift |-> 0]
  BY <1>1 DEF AddCall, NoCall
<1>. QED
  BY <1>1, <1>2 DEF CallOf

LEMMA SubFields ==
  ASSUME NEW a \in Seq(Words), NEW b \in Seq(Words), NEW out \in Seq(Words), NEW n \in Nat
  PROVE  SubCall(a, b, out, n) = CallOf("sub", a, b, out, Wire("cin"), Wire("cout"), n, 0)
<1>1. PICK k, c1, c2 : k = SubCall(a, b, out, n) /\ c1 = Wire("cin") /\ c2 = Wire("cout")
  OBVIOUS
<1>2. k = [op |-> "sub", a |-> a, b |-> b, out |-> out, cin |-> c1, cout |-> c2, bits |-> n, shift |-> 0]
  BY <1>1 DEF SubCall, NoCall
<1>. QED
  BY <1>1, <1>2 DEF CallOf

LEMMA ShiftFields ==
  ASSUME NEW a \in Seq(Words), NEW out \in Seq(Words), NEW n \in Nat, NEW s \in Nat
  PROVE  ShiftCall(a, out, n, s) = CallOf("shift", a, <<>>, out, Wire("cin"), Wire("cout"), n, s)
<1>1. PICK k, c1, c2 : k = ShiftCall(a, out, n, s) /\ c1 = Wire("cin") /\ c2 = Wire("cout")
  OBVIOUS
<1>2. k = [op |-> "shift", a |-> a, b |-> <<>>, out |-> out, cin |-> c1, cout |-> c2, bits |-> n, shift |-> s]
  BY <1>1 DEF ShiftCall, NoCall
<1>. QED
  BY <1>1, <1>2 DEF CallOf

LEMMA PlainFields ==
  ASSUME NEW op \in Ops
  PROVE  Plain(op) = CallOf(op, <<>>, <<>>, <<>>, Wire("cin"), Wire("cout"), 0, 0)
<1>1. PICK k, c1, c2 : k = Plain(op) /\ c1 = Wire("cin") /\ c2 = Wire("cout")
  OBVIOUS
<1>2. k = [op |-> op, a |-> <<>>, b |-> <<>>, out |-> <<>>, cin |-> c1, cout |-> c2, bits |-> 0, shift |-> 0]
  BY <1>1 DEF Plain, NoCall
<1>. QED
  BY <1>1, <1>2 DEF CallOf

LEMMA FieldsOf ==
  \A op, a, b, out, ci, co, n, s :
    LET k == CallOf(op, a, b, out, ci, co, n, s)
    IN /\ k.op = op /\ k.a = a /\ k.b = b /\ k.out = out /\ k.cin = ci /\ k.cout = co /\ k.bits = n /\ k.shift = s
  BY DEF CallOf

(* The prefixes of abs(min(5x,3y)). *)
fourX == <<"x", "_4X">>
twoY  == <<"y", "_2Y">>
LEMMA PrefixWords ==
  /\ x \in Seq(Words) /\ y \in Seq(Words) /\ z \in Seq(Words) /\ zeros \in Seq(Words)
  /\ fourX \in Seq(Words) /\ twoY \in Seq(Words) /\ fiveX \in Seq(Words) /\ threeY \in Seq(Words)
  /\ minus5X \in Seq(Words) /\ minus3Y \in Seq(Words) /\ diff \in Seq(Words)
<1>1. \A w \in {"x", "y", "z", "ZERO_19", "_4X", "_2Y", "_5X", "_3Y", "_-5X", "_-3Y", "_5X-3Y"} : w \in Words
  BY DEF Words
<1>. QED
  BY <1>1, OneElement, TwoElements DEF x, y, z, zeros, fourX, twoY, fiveX, threeY, minus5X, minus3Y, diff

(* Its twelve calls. *)
LEMMA AbsMinAt ==
  /\ Len(AbsMinCalls) = 12
  /\ AbsMinCalls[1]  = CallOf("ports", <<>>, <<>>, <<>>, Wire("cin"), Wire("cout"), 0, 0)
  /\ AbsMinCalls[2]  = CallOf("extend", <<>>, <<>>, <<>>, Wire("cin"), Wire("cout"), 0, 0)
  /\ AbsMinCalls[3]  = CallOf("zero", <<>>, <<>>, <<>>, Wire("cin"), Wire("cout"), 0, 0)
  /\ AbsMinCalls[4]  = CallOf("shift", x, <<>>, fourX, Wire("cin"), Wire("cout"), Width, 2)
  /\ AbsMinCalls[5]  = CallOf("add", x, fourX, fiveX, Wire("ZERO"), Wire("x_cout"), Width, 0)
  /\ AbsMinCalls[6]  = CallOf("shift", y, <<>>, twoY, Wire("cin"), Wire("cout"), Width, 1)
  /\ AbsMinCalls[7]  = CallOf("add", y, twoY, threeY, Wire("ZERO"), Wire("y_cout"), Width, 0)
  /\ AbsMinCalls[8]  = CallOf("sub", zeros, fiveX, minus5X, Wire("cin"), Wire("cout"), Width, 0)
  /\ AbsMinCalls[9]  = CallOf("sub", zeros, threeY, minus3Y, Wire("cin"), Wire("cout"), Width, 0)
  /\ AbsMinCalls[10] = CallOf("sub", fiveX, threeY, diff, Wire("cin"), Wire("cout"), Width, 0)
  /\ AbsMinCalls[11] = CallOf("select", <<>>, <<>>, <<>>, Wire("cin"), Wire("cout"), 0, 0)
  /\ AbsMinCalls[12] = CallOf("mux", <<>>, <<>>, <<>>, Wire("cin"), Wire("cout"), 0, 0)
<1>1. PICK c1, c2, c3, c4, c5, c6, c7, c8, c9, c10, c11, c12 :
        /\ c1 = Plain("ports") /\ c2 = Plain("extend") /\ c3 = Plain("zero")
        /\ c4 = ShiftCall(x, fourX, Width, 2) /\ c5 = AddCall(x, fourX, Wire("ZERO"), fiveX, Wire("x_cout"), Width)
        /\ c6 = ShiftCall(y, twoY, Width, 1) /\ c7 = AddCall(y, twoY, Wire("ZERO"), threeY, Wire("y_cout"), Width)
        /\ c8 = SubCall(zeros, fiveX, minus5X, Width) /\ c9 = SubCall(zeros, threeY, minus3Y, Width)
        /\ c10 = SubCall(fiveX, threeY, diff, Width) /\ c11 = Plain("select") /\ c12 = Plain("mux")
  OBVIOUS
<1>2. AbsMinCalls = <<c1, c2, c3, c4, c5, c6, c7, c8, c9, c10, c11, c12>>
  BY <1>1 DEF AbsMinCalls, fourX, twoY
<1>3. PICK t : t = <<c1, c2, c3, c4, c5, c6, c7, c8, c9, c10, c11, c12>>
  OBVIOUS
<1>4. /\ Len(t) = 12 /\ t[1] = c1 /\ t[2] = c2 /\ t[3] = c3 /\ t[4] = c4 /\ t[5] = c5 /\ t[6] = c6
      /\ t[7] = c7 /\ t[8] = c8 /\ t[9] = c9 /\ t[10] = c10 /\ t[11] = c11 /\ t[12] = c12
  BY <1>3
<1>5. Width \in Nat /\ 0 \in Nat /\ 1 \in Nat /\ 2 \in Nat
  BY SizesAssumption DEF Width
<1>6. Wire("ZERO") \in Names /\ Wire("x_cout") \in Names /\ Wire("y_cout") \in Names
  BY WireName DEF Words
<1>7. /\ c1 = CallOf("ports", <<>>, <<>>, <<>>, Wire("cin"), Wire("cout"), 0, 0)
      /\ c2 = CallOf("extend", <<>>, <<>>, <<>>, Wire("cin"), Wire("cout"), 0, 0)
      /\ c3 = CallOf("zero", <<>>, <<>>, <<>>, Wire("cin"), Wire("cout"), 0, 0)
      /\ c11 = CallOf("select", <<>>, <<>>, <<>>, Wire("cin"), Wire("cout"), 0, 0)
      /\ c12 = CallOf("mux", <<>>, <<>>, <<>>, Wire("cin"), Wire("cout"), 0, 0)
  <2>1. \A op \in {"ports", "extend", "zero", "select", "mux"} :
          Plain(op) = CallOf(op, <<>>, <<>>, <<>>, Wire("cin"), Wire("cout"), 0, 0)
    BY PlainFields DEF Ops
  <2>. QED
    BY <1>1, <2>1
<1>8. /\ c4 = CallOf("shift", x, <<>>, fourX, Wire("cin"), Wire("cout"), Width, 2)
      /\ c6 = CallOf("shift", y, <<>>, twoY, Wire("cin"), Wire("cout"), Width, 1)
  BY <1>1, <1>5, PrefixWords, ShiftFields
<1>9. /\ c5 = CallOf("add", x, fourX, fiveX, Wire("ZERO"), Wire("x_cout"), Width, 0)
      /\ c7 = CallOf("add", y, twoY, threeY, Wire("ZERO"), Wire("y_cout"), Width, 0)
  BY <1>1, <1>5, <1>6, PrefixWords, AddFields
<1>10. /\ c8 = CallOf("sub", zeros, fiveX, minus5X, Wire("cin"), Wire("cout"), Width, 0)
       /\ c9 = CallOf("sub", zeros, threeY, minus3Y, Wire("cin"), Wire("cout"), Width, 0)
       /\ c10 = CallOf("sub", fiveX, threeY, diff, Wire("cin"), Wire("cout"), Width, 0)
  BY <1>1, <1>5, PrefixWords, SubFields
<1>. QED
  BY <1>2, <1>3, <1>4, <1>7, <1>8, <1>9, <1>10

(* The calls that need nodes of earlier ones are in their places. *)
LEMMA AbsMinOps ==
  ASSUME NEW i \in 1 .. 12
  PROVE  /\ AbsMinCalls[i].op = "extend" => i = 2
         /\ AbsMinCalls[i].op = "select" => i = 11
         /\ AbsMinCalls[i].op = "mux" => i = 12
<1>1. /\ AbsMinCalls[1].op = "ports" /\ AbsMinCalls[2].op = "extend" /\ AbsMinCalls[3].op = "zero"
      /\ AbsMinCalls[4].op = "shift" /\ AbsMinCalls[5].op = "add" /\ AbsMinCalls[6].op = "shift"
      /\ AbsMinCalls[7].op = "add" /\ AbsMinCalls[8].op = "sub" /\ AbsMinCalls[9].op = "sub"
      /\ AbsMinCalls[10].op = "sub" /\ AbsMinCalls[11].op = "select" /\ AbsMinCalls[12].op = "mux"
  BY AbsMinAt, FieldsOf
<1>. QED
  BY <1>1

(* The other options are one call. *)
LEMMA OneCall ==
  ASSUME NEW o \in Option, o.op # "absmin"
  PROVE  /\ Len(Calls(o)) = 1
         /\ o.op = "add" => Calls(o)[1] = CallOf("add", <<"a">>, <<"b">>, <<"s">>, Wire("cin"), Wire("cout"), o.bits, 0)
         /\ o.op = "sub" => Calls(o)[1] = CallOf("sub", <<"a">>, <<"b">>, <<"s">>, Wire("cin"), Wire("cout"), o.bits, 0)
         /\ o.op = "shift" =>
              Calls(o)[1] = CallOf("shift", <<"orig">>, <<>>, <<"out">>, Wire("cin"), Wire("cout"), o.bits, o.shift)
         /\ Calls(o)[1].op = o.op
<1>1. o.bits \in Nat /\ o.shift \in Nat /\ o.op \in {"add", "sub", "shift"}
  BY SizesAssumption DEF Option
<1>2. PICK a \in Seq(Words), b \in Seq(Words), s \in Seq(Words), orig \in Seq(Words), out \in Seq(Words) :
        a = <<"a">> /\ b = <<"b">> /\ s = <<"s">> /\ orig = <<"orig">> /\ out = <<"out">>
  <2>1. "a" \in Words /\ "b" \in Words /\ "s" \in Words /\ "orig" \in Words /\ "out" \in Words
    BY DEF Words
  <2>2. <<"a">> \in Seq(Words) /\ <<"b">> \in Seq(Words) /\ <<"s">> \in Seq(Words) /\ <<"orig">> \in Seq(Words)
        /\ <<"out">> \in Seq(Words)
    BY <2>1, OneElement
  <2>. QED
    BY <2>2
<1>3. CASE o.op = "add"
  <2>1. AddCall(a, b, Wire("cin"), s, Wire("cout"), o.bits) = CallOf("add", a, b, s, Wire("cin"), Wire("cout"), o.bits, 0)
    BY <1>1, Wires, AddFields
  <2>2. Calls(o) = <<AddCall(a, b, Wire("cin"), s, Wire("cout"), o.bits)>>
    BY <1>2, <1>3 DEF Calls
  <2>. QED
    BY <1>2, <1>3, <2>1, <2>2, FieldsOf
<1>4. CASE o.op = "sub"
  <2>1. SubCall(a, b, s, o.bits) = CallOf("sub", a, b, s, Wire("cin"), Wire("cout"), o.bits, 0)
    BY <1>1, Wires, SubFields
  <2>2. Calls(o) = <<SubCall(a, b, s, o.bits)>>
    BY <1>2, <1>4 DEF Calls
  <2>. QED
    BY <1>2, <1>4, <2>1, <2>2, FieldsOf
<1>5. CASE o.op = "shift"
  <2>1. ShiftCall(orig, out, o.bits, o.shift) = CallOf("shift", orig, <<>>, out, Wire("cin"), Wire("cout"), o.bits, o.shift)
    BY <1>1, Wires, ShiftFields
  <2>2. Calls(o) = <<ShiftCall(orig, out, o.bits, o.shift)>>
    BY <1>2, <1>5 DEF Calls
  <2>. QED
    BY <1>2, <1>5, <2>1, <2>2, FieldsOf
<1>. QED
  BY <1>1, <1>3, <1>4, <1>5

----------------------------------------------------------------------------
(* Types *)

NodeOver(D) == [type : Types, fanin : Seq(D), gate : Gates \cup {NoGate}, val : {0, 1}]
CircuitOver(D) == [D -> NodeOver(D)]

(* What is left to do is the rest of the option's calls, and what the calls    *)
(* before it create is there.                                                *)
Done == Len(Calls(option)) - Len(todo)
Progress ==
  phase = "build" =>
    /\ option \in Options /\ Done \in 0 .. Len(Calls(option))
    /\ \A i \in 1 .. Len(todo) : todo[i] = Calls(option)[Done + i]
    /\ \A i \in 1 .. Done : Created(Calls(option)[i]) \subseteq DOMAIN circuit

TInv ==
  /\ GInv /\ circuit \in CircuitOver(DOMAIN circuit)
  /\ phase \in {"options", "build", "exhausted", "aborted", "done"} /\ left \in 0 .. MaxOptions
  /\ option \in Options \cup {NoOption} /\ saved \in BOOLEAN
  /\ Progress
  /\ bit # NoBit => bit \in First(call) .. End(call) /\ Created(call) \subseteq DOMAIN circuit

LEMMA GateTyped ==
  ASSUME NEW D, NEW c \in CircuitOver(D), NEW out, NEW gate \in Gates, NEW ins \in Seq(D)
  PROVE  SetGate(c, out, gate, ins) \in CircuitOver(D)
<1>. DEFINE v == Value(gate, ValuesOf(c, ins))
            r == [c[out] EXCEPT !.fanin = ins, !.gate = gate, !.val = v]
<1>1. v \in {0, 1}
  BY ValueIsBit
<1>. HIDE DEF v
<1>2. out \in D => r \in NodeOver(D)
  <2>. SUFFICES ASSUME out \in D PROVE r \in NodeOver(D)
    OBVIOUS
  <2>1. PICK o : o = c[out] /\ o \in NodeOver(D)
    BY DEF CircuitOver
  <2>2. [o EXCEPT !.fanin = ins, !.gate = gate, !.val = v] \in NodeOver(D)
    BY <1>1, <2>1 DEF NodeOver
  <2>. QED
    BY <2>1, <2>2
<1>. HIDE DEF r
<1>3. [c EXCEPT ![out] = r] \in [D -> NodeOver(D)]
  BY <1>2 DEF CircuitOver
<1>. QED
  BY <1>3 DEF SetGate, CircuitOver, r, v

LEMMA OneOf == \A D : \A a \in D : <<a>> \in Seq(D)
  OBVIOUS
LEMMA TwoOf == \A D : \A a, b \in D : <<a, b>> \in Seq(D)
  OBVIOUS
LEMMA ThreeOf == \A D : \A a, b, c \in D : <<a, b, c>> \in Seq(D)
  OBVIOUS
LEMMA SixOf == \A D : \A a, b, c, d, e, f \in D : <<a, b, c, d, e, f>> \in Seq(D)
  OBVIOUS

(* The call at work is one of its option's. *)
LEMMA CallAt ==
  ASSUME TInv, Building
  PROVE  /\ option \in Option /\ Done + 1 \in 1 .. Len(Calls(option)) /\ call = Calls(option)[Done + 1]
         /\ Done \in Nat /\ call \in ProperCalls
<1>1. todo \in Seq(ProperCalls) /\ todo # <<>> /\ option \in Options
  BY DEF TInv, GInv, Building, Progress
<1>2. Len(Calls(option)) \in Nat
  BY <1>1, CallsProper
<1>3. Len(todo) \in Nat \ {0} /\ call = todo[1]
  BY <1>1 DEF call
<1>4. Done \in 0 .. Len(Calls(option)) /\ todo[1] = Calls(option)[Done + 1]
  BY <1>3 DEF TInv, Progress, Building
<1>5. Done + 1 \in 1 .. Len(Calls(option))
  BY <1>2, <1>3, <1>4 DEF Done
<1>. QED
  BY <1>1, <1>3, <1>4, <1>5, CallIsProper, OptionsAssumption DEF TInv

(* Only abs(min(5x,3y)) has calls that look at nodes of earlier ones. *)
LEMMA OnlyAbsMin ==
  ASSUME TInv, Building, call.op \in {"extend", "select", "mux"}
  PROVE  /\ option.op = "absmin" /\ Calls(option) = AbsMinCalls
         /\ call.op = "extend" => Done = 1
         /\ call.op = "select" => Done = 10
         /\ call.op = "mux" => Done = 11
<1>1. /\ option \in Option /\ Done + 1 \in 1 .. Len(Calls(option)) /\ call = Calls(option)[Done + 1] /\ Done \in Nat
  BY CallAt
<1>2. option.op = "absmin"
  <2>. SUFFICES ASSUME option.op # "absmin" PROVE FALSE
    OBVIOUS
  <2>1. Len(Calls(option)) = 1 /\ Calls(option)[1].op = option.op
    BY <1>1, OneCall
  <2>2. Done + 1 = 1
    BY <1>1, <2>1
  <2>3. call.op = option.op
    BY <1>1, <2>1, <2>2
  <2>. QED
    BY <1>1, <2>3 DEF Option
<1>3. Calls(option) = AbsMinCalls
  BY <1>2 DEF Calls
<1>4. Done + 1 \in 1 .. 12 /\ call = AbsMinCalls[Done + 1]
  BY <1>1, <1>3, AbsMinAt
<1>5. /\ call.op = "extend" => Done + 1 = 2
      /\ call.op = "select" => Done + 1 = 11
      /\ call.op = "mux" => Done + 1 = 12
  BY <1>4, AbsMinOps
<1>. QED
  BY <1>1, <1>2, <1>3, <1>5

LEMMA EarlierThere ==
  ASSUME TInv, Building, NEW i \in 1 .. Done
  PROVE  Created(Calls(option)[i]) \subseteq DOMAIN circuit
  BY DEF TInv, Progress, Building

(* What the calls of abs(min(5x,3y)) create, as later ones use it. *)
LEMMA AbsMinCreates ==
  ASSUME NEW i \in 0 .. (Width - 1)
  PROVE  /\ Bit(x, i) \in Created(AbsMinCalls[1]) /\ Bit(y, i) \in Created(AbsMinCalls[1])
         /\ Bit(z, i) \in Created(AbsMinCalls[1])
         /\ Bit(fiveX, i) \in Created(AbsMinCalls[5]) /\ Bit(threeY, i) \in Created(AbsMinCalls[7])
         /\ Bit(minus5X, i) \in Created(AbsMinCalls[8]) /\ Bit(minus3Y, i) \in Created(AbsMinCalls[9])
         /\ Bit(diff, i) \in Created(AbsMinCalls[10])
         /\ Wire("sel1") \in Created(AbsMinCalls[11]) /\ Wire("sel2") \in Created(AbsMinCalls[11])
<1>1. Width \in Nat
  BY SizesAssumption DEF Width
<1>2. /\ AbsMinCalls[1].op = "ports" /\ AbsMinCalls[11].op = "select"
      /\ AbsMinCalls[5].op = "add" /\ AbsMinCalls[5].bits = Width /\ AbsMinCalls[5].out = fiveX
      /\ AbsMinCalls[7].op = "add" /\ AbsMinCalls[7].bits = Width /\ AbsMinCalls[7].out = threeY
      /\ AbsMinCalls[8].op = "sub" /\ AbsMinCalls[8].bits = Width /\ AbsMinCalls[8].out = minus5X
      /\ AbsMinCalls[9].op = "sub" /\ AbsMinCalls[9].bits = Width /\ AbsMinCalls[9].out = minus3Y
      /\ AbsMinCalls[10].op = "sub" /\ AbsMinCalls[10].bits = Width /\ AbsMinCalls[10].out = diff
  BY AbsMinAt, FieldsOf
<1>3. \A j \in {5, 7, 8, 9, 10} : AbsMinCalls[j] \in ProperCalls
  <2>1. PICK t : t = AbsMinCalls
    OBVIOUS
  <2>2. t \in Seq(ProperCalls) /\ Len(t) = 12
    BY <2>1, AbsMinProper, AbsMinAt
  <2>. QED
    BY <2>1, <2>2
<1>4. Bit(x, i) \in Created(AbsMinCalls[1]) /\ Bit(y, i) \in Created(AbsMinCalls[1]) /\ Bit(z, i) \in Created(AbsMinCalls[1])
  BY <1>1, <1>2, BitsHave DEF Created
<1>5. Bit(fiveX, i) \in Created(AbsMinCalls[5]) /\ Bit(threeY, i) \in Created(AbsMinCalls[7])
  BY <1>2, <1>3, AddCreates
<1>6. /\ Bit(minus5X, i) \in Created(AbsMinCalls[8]) /\ Bit(minus3Y, i) \in Created(AbsMinCalls[9])
      /\ Bit(diff, i) \in Created(AbsMinCalls[10])
  BY <1>2, <1>3, SubCreates
<1>7. Wire("sel1") \in Created(AbsMinCalls[11]) /\ Wire("sel2") \in Created(AbsMinCalls[11])
  BY <1>2 DEF Created
<1>. QED
  BY <1>4, <1>5, <1>6, <1>7

(* The loops only use nodes that are there. *)
LEMMA AddBitTyped ==
  ASSUME TInv, AddBit
  PROVE  circuit' \in CircuitOver(DOMAIN circuit)
<1>1. PICK k \in ProperCalls : k = call
  BY CallIsProper DEF AddBit, At, TInv
<1>2. Building /\ bit # NoBit /\ k.op = "add" /\ bit \in 0 .. (k.bits - 1) /\ Created(k) \subseteq DOMAIN circuit
  <2>1. Building /\ bit # NoBit /\ k.op = "add" /\ bit < End(k)
    BY <1>1 DEF AddBit, At
  <2>2. bit \in First(k) .. End(k) /\ Created(k) \subseteq DOMAIN circuit
    BY <1>1, <2>1 DEF TInv
  <2>3. First(k) = 0 /\ End(k) = k.bits /\ k.bits \in Nat
    BY <2>1, SizesAssumption DEF First, End, ProperCalls, Call
  <2>. QED
    BY <2>1, <2>2, <2>3
<1>. DEFINE D == DOMAIN circuit
            a    == Bit(k.a, bit)
            b    == Bit(k.b, bit)
            ci   == CarryIn(k, bit)
            ab   == Bit(k.out \o <<"_AB">>, bit)
            axb  == Bit(k.out \o <<"_AxorB">>, bit)
            caxb == Bit(k.out \o <<"_ciAxorB">>, bit)
            s    == Bit(k.out, bit)
            co   == CarryOut(k, bit)
            zero == Wire("zero")
            c1 == SetGate(circuit, s, "xor3", <<a, b, ci>>)
            c2 == SetGate(c1, ab, "and2", <<a, b>>)
            c3 == SetGate(c2, axb, "xor3", <<zero, a, b>>)
            c4 == SetGate(c3, caxb, "and2", <<ci, axb>>)
            c5 == SetGate(c4, co, "or2", <<ab, caxb>>)
<1>3. circuit' = c5
  BY <1>1 DEF AddBit
<1>4. a \in D /\ b \in D /\ ci \in D /\ zero \in D /\ ab \in D /\ axb \in D /\ caxb \in D
  BY <1>2, AddCreates
<1>5. circuit \in CircuitOver(D) /\ "xor3" \in Gates /\ "and2" \in Gates /\ "or2" \in Gates
  BY DEF TInv, Gates
<1>. HIDE DEF D, a, b, ci, ab, axb, caxb, zero, s, co
<1>6. /\ <<a, b, ci>> \in Seq(D) /\ <<a, b>> \in Seq(D) /\ <<zero, a, b>> \in Seq(D)
      /\ <<ci, axb>> \in Seq(D) /\ <<ab, caxb>> \in Seq(D)
  BY <1>4, TwoOf, ThreeOf
<1>7. c1 \in CircuitOver(D)
  BY <1>5, <1>6, GateTyped
<1>. HIDE DEF c1
<1>8. c2 \in CircuitOver(D)
  BY <1>5, <1>6, <1>7, GateTyped
<1>. HIDE DEF c2
<1>9. c3 \in CircuitOver(D)
  BY <1>5, <1>6, <1>8, GateTyped
<1>. HIDE DEF c3
<1>10. c4 \in CircuitOver(D)
  BY <1>5, <1>6, <1>9, GateTyped
<1>. HIDE DEF c4
<1>11. c5 \in CircuitOver(D)
  BY <1>5, <1>6, <1>10, GateTyped
<1>. QED
  BY <1>3, <1>11 DEF D

LEMMA SubBitTyped ==
  ASSUME TInv, SubBit
  PROVE  circuit' \in CircuitOver(DOMAIN circuit)
<1>1. PICK k \in ProperCalls : k = call
  BY CallIsProper DEF SubBit, At, TInv
<1>2. Building /\ bit # NoBit /\ k.op = "sub" /\ bit \in 0 .. (k.bits - 1) /\ Created(k) \subseteq DOMAIN circuit
  <2>1. Building /\ bit # NoBit /\ k.op = "sub" /\ bit < End(k)
    BY <1>1 DEF SubBit, At
  <2>2. bit \in First(k) .. End(k) /\ Created(k) \subseteq DOMAIN circuit
    BY <1>1, <2>1 DEF TInv
  <2>3. First(k) = 0 /\ End(k) = k.bits /\ k.bits \in Nat
    BY <2>1, SizesAssumption DEF First, End, ProperCalls, Call
  <2>. QED
    BY <2>1, <2>2, <2>3
<1>. DEFINE D == DOMAIN circuit
            a    == Bit(k.a, bit)
            b    == Bit(k.b, bit)
            bi   == BorrowIn(k, bit)
            s    == Bit(k.out, bit)
            axb  == Bit(k.out \o <<"_AxorB">>, bit)
            naxb == Bit(k.out \o <<"_notAxorB">>, bit)
            t1   == Bit(k.out \o <<"_temp1">>, bit)
            na   == Bit(k.out \o <<"_notA">>, bit)
            t2   == Bit(k.out \o <<"_temp2">>, bit)
            bo   == Bit(k.out \o <<"_Bo">>, bit)
            zero == Wire("zero")
            one  == Wire("one")
            c1 == SetGate(circuit, s, "xor3", <<a, b, bi>>)
            c2 == SetGate(c1, axb, "xor3", <<zero, a, b>>)
            c3 == SetGate(c2, naxb, "xor3", <<zero, axb, one>>)
            c4 == SetGate(c3, t1, "and2", <<bi, naxb>>)
            c5 == SetGate(c4, na, "xor3", <<zero, a, one>>)
            c6 == SetGate(c5, t2, "and2", <<na, b>>)
            c7 == SetGate(c6, bo, "or2", <<t1, t2>>)
<1>3. circuit' = c7
  BY <1>1 DEF SubBit
<1>4. /\ a \in D /\ b \in D /\ bi \in D /\ zero \in D /\ one \in D /\ axb \in D /\ naxb \in D
      /\ t1 \in D /\ na \in D /\ t2 \in D
  BY <1>2, SubCreates
<1>5. circuit \in CircuitOver(D) /\ "xor3" \in Gates /\ "and2" \in Gates /\ "or2" \in Gates
  BY DEF TInv, Gates
<1>. HIDE DEF D, a, b, bi, s, axb, naxb, t1, na, t2, bo, zero, one
<1>6. /\ <<a, b, bi>> \in Seq(D) /\ <<zero, a, b>> \in Seq(D) /\ <<zero, axb, one>> \in Seq(D)
      /\ <<zero, a, one>> \in Seq(D)
      /\ <<bi, naxb>> \in Seq(D) /\ <<na, b>> \in Seq(D) /\ <<t1, t2>> \in Seq(D)
  BY <1>4, TwoOf, ThreeOf
<1>7. c1 \in CircuitOver(D)
  BY <1>5, <1>6, GateTyped
<1>. HIDE DEF c1
<1>8. c2 \in CircuitOver(D)
  BY <1>5, <1>6, <1>7, GateTyped
<1>. HIDE DEF c2
<1>9. c3 \in CircuitOver(D)
  BY <1>5, <1>6, <1>8, GateTyped
<1>. HIDE DEF c3
<1>10. c4 \in CircuitOver(D)
  BY <1>5, <1>6, <1>9, GateTyped
<1>. HIDE DEF c4
<1>11. c5 \in CircuitOver(D)
  BY <1>5, <1>6, <1>10, GateTyped
<1>. HIDE DEF c5
<1>12. c6 \in CircuitOver(D)
  BY <1>5, <1>6, <1>11, GateTyped
<1>. HIDE DEF c6
<1>13. c7 \in CircuitOver(D)
  BY <1>5, <1>6, <1>12, GateTyped
<1>. QED
  BY <1>3, <1>13 DEF D

LEMMA ShiftBitTyped ==
  ASSUME TInv, ShiftBit
  PROVE  circuit' \in CircuitOver(DOMAIN circuit)
<1>1. PICK k \in ProperCalls : k = call
  BY CallIsProper DEF ShiftBit, At, TInv
<1>2. Building /\ bit # NoBit /\ k.op = "shift" /\ bit < End(k)
  BY <1>1 DEF ShiftBit, At
<1>3. /\ bit \in First(k) .. End(k) /\ Created(k) \subseteq DOMAIN circuit /\ circuit \in CircuitOver(DOMAIN circuit)
  BY <1>1, <1>2 DEF TInv
<1>4. First(k) = 0 /\ End(k) \in Nat /\ End(k) <= k.bits + k.shift /\ k.bits \in Nat /\ k.shift \in Nat
  BY <1>2, ShiftLoop, UnsignedSum DEF ProperCalls, Call
<1>5. PICK n : n = IF bit < k.shift THEN Wire("ZERO") ELSE Bit(k.a, bit - k.shift)
  OBVIOUS
<1>6. n \in DOMAIN circuit
  <2>1. Wire("ZERO") \in Created(k)
    BY <1>2 DEF Created
  <2>2. ~(bit < k.shift) => bit - k.shift \in 0 .. (k.bits - 1)
    BY <1>2, <1>3, <1>4
  <2>3. \A i \in 0 .. (k.bits - 1) : Bit(k.a, i) \in Created(k)
    BY <1>2, <1>4, BitsHave DEF Created
  <2>. QED
    BY <1>3, <1>5, <2>1, <2>2, <2>3
<1>7. circuit' = SetGate(circuit, Bit(k.out, bit), "buf1", <<n>>)
  BY <1>1, <1>5 DEF ShiftBit
<1>8. <<n>> \in Seq(DOMAIN circuit) /\ "buf1" \in Gates
  BY <1>6, OneOf DEF Gates
<1>. QED
  BY <1>3, <1>7, <1>8, GateTyped

LEMMA DatapathBitTyped ==
  ASSUME TInv, ExtendBit \/ Select \/ MuxBit
  PROVE  circuit' \in CircuitOver(DOMAIN circuit)
<1>1. /\ Building /\ bit # NoBit /\ bit < End(call) /\ call.op \in {"extend", "select", "mux"}
  BY DEF ExtendBit, Select, MuxBit, At
<1>2. Calls(option) = AbsMinCalls /\ Done \in Nat
  BY <1>1, OnlyAbsMin, CallAt
<1>3. circuit \in CircuitOver(DOMAIN circuit) /\ "buf1" \in Gates /\ "or2" \in Gates /\ "mux4" \in Gates
  BY DEF TInv, Gates
<1>4. \A i \in 1 .. Done : Created(AbsMinCalls[i]) \subseteq DOMAIN circuit
  BY <1>1, <1>2, EarlierThere
<1>5. InBits \in Nat /\ Width \in Nat /\ InBits - 1 \in 0 .. (Width - 1) /\ Width - 1 \in 0 .. (Width - 1)
  BY SizesAssumption DEF Width
<1>6. CASE ExtendBit
  <2>1. Done = 1
    BY <1>1, <1>6, OnlyAbsMin DEF ExtendBit, At
  <2>2. Bit(x, InBits - 1) \in DOMAIN circuit /\ Bit(y, InBits - 1) \in DOMAIN circuit
    BY <1>4, <1>5, <2>1, AbsMinCreates
  <2>3. PICK c : c = SetGate(circuit, Bit(x, bit), "buf1", <<Bit(x, InBits - 1)>>)
    OBVIOUS
  <2>4. c \in CircuitOver(DOMAIN circuit)
    BY <1>3, <2>2, <2>3, GateTyped, OneOf
  <2>5. circuit' = SetGate(c, Bit(y, bit), "buf1", <<Bit(y, InBits - 1)>>)
    BY <1>6, <2>3 DEF ExtendBit
  <2>. QED
    BY <1>3, <2>2, <2>4, <2>5, GateTyped, OneOf
<1>7. CASE Select
  <2>1. Done = 10
    BY <1>1, <1>7, OnlyAbsMin DEF Select, At
  <2>2. \A i \in {5, 7, 10} : Created(AbsMinCalls[i]) \subseteq DOMAIN circuit
    BY <1>4, <2>1
  <2>3. Bit(fiveX, Width - 1) \in DOMAIN circuit /\ Bit(threeY, Width - 1) \in DOMAIN circuit /\ Bit(diff, Width - 1) \in DOMAIN circuit
    BY <1>5, <2>2, AbsMinCreates
  <2>4. PICK c : c = SetGate(circuit, Wire("sel1"), "or2", <<Bit(fiveX, Width - 1), Bit(threeY, Width - 1)>>)
    OBVIOUS
  <2>5. c \in CircuitOver(DOMAIN circuit)
    BY <1>3, <2>3, <2>4, GateTyped, TwoOf
  <2>6. circuit' = SetGate(c, Wire("sel2"), "buf1", <<Bit(diff, Width - 1)>>)
    BY <1>7, <2>4 DEF Select, SignOfEither
  <2>. QED
    BY <1>3, <2>3, <2>5, <2>6, GateTyped, OneOf
<1>8. CASE MuxBit
  <2>1. Done = 11 /\ bit \in First(call) .. End(call) /\ call.op = "mux"
    BY <1>1, <1>8, OnlyAbsMin DEF MuxBit, At, TInv
  <2>2. bit \in 0 .. (Width - 1)
    BY <1>1, <1>5, <2>1 DEF First, End
  <2>3. \A i \in {5, 7, 8, 9, 11} : Created(AbsMinCalls[i]) \subseteq DOMAIN circuit
    BY <1>4, <2>1
  <2>4. /\ Wire("sel1") \in DOMAIN circuit /\ Wire("sel2") \in DOMAIN circuit
        /\ Bit(fiveX, bit) \in DOMAIN circuit /\ Bit(threeY, bit) \in DOMAIN circuit
        /\ Bit(minus5X, bit) \in DOMAIN circuit /\ Bit(minus3Y, bit) \in DOMAIN circuit
    BY <2>2, <2>3, AbsMinCreates
  <2>5. PICK ins : ins = <<Wire("sel1"), Wire("sel2"), Bit(minus5X, bit), Bit(minus3Y, bit), Bit(fiveX, bit), Bit(threeY, bit)>>
    OBVIOUS
  <2>6. ins \in Seq(DOMAIN circuit)
    BY <2>4, <2>5, SixOf
  <2>7. circuit' = SetGate(circuit, Bit(z, bit), "mux4", ins)
    BY <1>8, <2>5 DEF MuxBit, Mux4
  <2>. QED
    BY <1>3, <2>6, <2>7, GateTyped
<1>. QED
  BY <1>6, <1>7, <1>8

(* More nodes do no harm. *)
LEMMA NodesOver ==
  ASSUME NEW D, NEW E, D \subseteq E
  PROVE  NodeOver(D) \subseteq NodeOver(E)
<1>1. Seq(D) \subseteq Seq(E)
  OBVIOUS
<1>. QED
  BY <1>1 DEF NodeOver

(* What stays as it is when todo, option and phase do. *)
LEMMA SameCalls ==
  ASSUME UNCHANGED <<phase, option, todo>>
  PROVE  /\ call' = call /\ Done' = Done /\ Building' = Building
  BY DEF call, Done, Building

LEMMA CreateAllTyped ==
  ASSUME TInv, CreateAll
  PROVE  TInv'
<1>1. PICK k \in ProperCalls : k = call
  BY CallIsProper DEF CreateAll, TInv
<1>2. Building /\ UNCHANGED <<phase, left, option, todo, given, saved>> /\ bit' = First(k)
  BY <1>1 DEF CreateAll
<1>3. PICK c : /\ c = CreateNodes(circuit, Created(k), given)
               /\ circuit' = [n \in DOMAIN c |->
                      IF n \in ZeroNodes(k) THEN ConstantNode("zero")
                      ELSE IF n \in OneNodes(k) THEN ConstantNode("one")
                      ELSE c[n]]
  BY <1>1 DEF CreateAll
<1>4. DOMAIN c = DOMAIN circuit \cup Created(k)
  BY <1>3 DEF CreateNodes
<1>5. PICK D : D = DOMAIN circuit \cup Created(k)
  OBVIOUS
<1>6. DOMAIN circuit' = D
  BY <1>3, <1>4, <1>5
<1>7. \A n \in D : c[n] \in NodeOver(D)
  <2>1. \A n \in D : (n \in DOMAIN circuit /\ c[n] = circuit[n]) \/ c[n] \in {NewNode(0), NewNode(1)}
    <3>1. \A n \in DOMAIN given : given[n] \in {0, 1}
      BY StimuliAssumption DEF GInv, TInv
    <3>. QED
      BY <1>3, <1>4, <1>5, <3>1 DEF CreateNodes
  <2>2. \A n \in DOMAIN circuit : circuit[n] \in NodeOver(D)
    BY <1>5, NodesOver DEF TInv, CircuitOver
  <2>3. <<>> \in Seq(D)
    OBVIOUS
  <2>4. NewNode(0) \in NodeOver(D) /\ NewNode(1) \in NodeOver(D)
    BY <2>3 DEF NewNode, NodeOver, Types
  <2>. QED
    BY <2>1, <2>2, <2>4
<1>8. ConstantNode("zero") \in NodeOver(D) /\ ConstantNode("one") \in NodeOver(D)
  <2>1. <<>> \in Seq(D)
    OBVIOUS
  <2>. QED
    BY <2>1 DEF ConstantNode, NodeOver, Types
<1>9. circuit' \in CircuitOver(DOMAIN circuit')
  BY <1>3, <1>4, <1>5, <1>6, <1>7, <1>8 DEF CircuitOver
<1>10. call' = k /\ Done' = Done
  BY <1>1, <1>2, SameCalls
<1>11. bit' \in First(k) .. End(k)
  <2>1. First(k) \in Nat /\ End(k) \in Nat /\ First(k) <= End(k)
    <3>1. First(k) \in Nat /\ End(k) \in Nat /\ (k.op # "extend" => First(k) = 0)
      BY LoopBounds DEF First
    <3>2. k.op = "extend" => First(k) = InBits /\ End(k) = InBits + 3
      BY DEF First, End, Width
    <3>. QED
      BY <3>1, <3>2, SizesAssumption
  <2>. QED
    BY <1>2, <2>1
<1>12. Progress'
  <2>1. Progress
    BY DEF TInv
  <2>. QED
    BY <1>2, <1>5, <1>6, <1>10, <2>1 DEF Progress
<1>13. GInv'
  BY CreateAllStep DEF TInv
<1>. QED
  BY <1>2, <1>5, <1>6, <1>9, <1>10, <1>11, <1>12, <1>13 DEF TInv

LEMMA BuildTyped ==
  ASSUME TInv, Build
  PROVE  TInv'
<1>1. circuit' \in CircuitOver(DOMAIN circuit)
  BY AddBitTyped, SubBitTyped, ShiftBitTyped, DatapathBitTyped DEF Build
<1>2. DOMAIN circuit' = DOMAIN circuit
  BY <1>1 DEF CircuitOver
<1>3. /\ Building /\ bit # NoBit /\ bit < End(call)
      /\ bit' = bit + 1 /\ UNCHANGED <<phase, left, option, todo, given, saved>>
  BY DEF Build, AddBit, SubBit, ShiftBit, ExtendBit, Select, MuxBit, At, Advance
<1>4. call' = call /\ Done' = Done
  BY <1>3, SameCalls
<1>5. PICK k \in ProperCalls : k = call
  BY <1>3, CallIsProper DEF TInv
<1>6. bit \in First(k) .. End(k) /\ Created(k) \subseteq DOMAIN circuit
  BY <1>3, <1>5 DEF TInv
<1>7. bit' \in First(k) .. End(k)
  <2>1. First(k) \in Nat /\ End(k) \in Nat
    BY LoopBounds
  <2>2. bit < End(k)
    BY <1>3, <1>5
  <2>. QED
    BY <1>3, <1>6, <2>1, <2>2
<1>8. GInv'
  BY AddBitStep, SubBitStep, OtherBitStep DEF Build, TInv
<1>9. Progress'
  BY <1>2, <1>3, <1>4 DEF TInv, Progress
<1>. QED
  BY <1>1, <1>2, <1>3, <1>4, <1>5, <1>6, <1>7, <1>8, <1>9 DEF TInv

LEMMA EndCallTyped ==
  ASSUME TInv, EndCall
  PROVE  TInv'
<1>1. /\ Building /\ bit # NoBit /\ todo' = Tail(todo) /\ bit' = NoBit
      /\ UNCHANGED <<phase, left, option, circuit, tally, given, saved>>
  BY DEF EndCall
<1>2. todo \in Seq(ProperCalls) /\ todo # <<>> /\ Created(call) \subseteq DOMAIN circuit /\ phase = "build"
  BY <1>1 DEF TInv, GInv, Building
<1>3. Len(todo) \in Nat \ {0} /\ Len(todo') = Len(todo) - 1 /\ \A i \in 1 .. Len(todo') : todo'[i] = todo[i + 1]
  BY <1>1, <1>2
<1>4. /\ option \in Options /\ Len(Calls(option)) \in Nat /\ Done \in Nat
      /\ Done + 1 \in 1 .. Len(Calls(option)) /\ call = Calls(option)[Done + 1]
      /\ \A i \in 1 .. Len(todo) : todo[i] = Calls(option)[Done + i]
      /\ \A i \in 1 .. Done : Created(Calls(option)[i]) \subseteq DOMAIN circuit
  <2>1. option \in Options
    BY <1>1 DEF TInv, Progress, Building
  <2>. QED
    BY <1>1, <2>1, CallAt, CallsProper DEF TInv, Progress, Building
<1>5. Done' = Done + 1
  BY <1>1, <1>3, <1>4 DEF Done
<1>6. Progress'
  <2>. DEFINE cs == Calls(option)
  <2>1. option' = option /\ Calls(option') = cs /\ Done' \in 0 .. Len(cs)
    BY <1>1, <1>4, <1>5
  <2>2. \A i \in 1 .. Len(todo') : todo'[i] = cs[Done' + i]
    <3>. SUFFICES ASSUME NEW i \in 1 .. Len(todo') PROVE todo'[i] = cs[Done' + i]
      OBVIOUS
    <3>1. i + 1 \in 1 .. Len(todo) /\ todo'[i] = todo[i + 1]
      BY <1>3
    <3>2. Done + (i + 1) = Done' + i
      BY <1>4, <1>5
    <3>. QED
      BY <1>4, <3>1, <3>2
  <2>3. \A i \in 1 .. Done' : Created(cs[i]) \subseteq DOMAIN circuit'
    <3>. SUFFICES ASSUME NEW i \in 1 .. Done' PROVE Created(cs[i]) \subseteq DOMAIN circuit
      BY <1>1
    <3>1. i \in 1 .. Done \/ i = Done + 1
      BY <1>4, <1>5
    <3>. QED
      BY <1>2, <1>4, <3>1
  <2>. QED
    BY <1>4, <2>1, <2>2, <2>3 DEF Progress
<1>7. GInv'
  BY GSteps DEF TInv, Next
<1>. QED
  BY <1>1, <1>6, <1>7 DEF TInv

LEMMA SaveTyped ==
  ASSUME TInv, Save
  PROVE  TInv'
<1>1. /\ phase = "build" /\ todo = <<>> /\ phase' = "options" /\ saved' \in BOOLEAN
      /\ UNCHANGED <<left, option, todo, bit, tally, given>>
  BY DEF Save
<1>2. bit = NoBit
  BY <1>1 DEF TInv, GInv, Building
<1>3. circuit' \in CircuitOver(DOMAIN circuit')
  <2>1. PICK ins, outs : circuit' = SetPorts(circuit, ins, outs)
    BY DEF Save
  <2>2. DOMAIN circuit' = DOMAIN circuit /\ circuit' = [n \in DOMAIN circuit |-> circuit'[n]]
    BY <2>1 DEF SetPorts
  <2>3. \A n \in DOMAIN circuit : circuit'[n] \in NodeOver(DOMAIN circuit)
    <3>. SUFFICES ASSUME NEW n \in DOMAIN circuit PROVE circuit'[n] \in NodeOver(DOMAIN circuit)
      OBVIOUS
    <3>1. PICK o \in NodeOver(DOMAIN circuit) : o = circuit[n]
      BY DEF TInv, CircuitOver
    <3>2. PICK t \in Types : circuit'[n] = [o EXCEPT !.type = t]
      BY <2>1, <3>1 DEF SetPorts, Types, NodeOver
    <3>. QED
      BY <3>2 DEF NodeOver
  <2>. QED
    BY <2>2, <2>3 DEF CircuitOver
<1>4. GInv'
  BY GSteps DEF TInv, Next
<1>. QED
  BY <1>1, <1>2, <1>3, <1>4 DEF TInv, Progress

LEMMA TSteps == TInv /\ [Next]_vars => TInv'
<1>. SUFFICES ASSUME TInv, [Next]_vars PROVE TInv'
  OBVIOUS
<1>1. GInv'
  BY GSteps DEF TInv
<1>2. ASSUME NEW o \in Options, ReadOption(o) PROVE TInv'
  <2>1. /\ bit = NoBit /\ bit' = NoBit /\ circuit' = circuit /\ left' \in 0 .. MaxOptions
        /\ option' = o /\ phase' = "build" /\ todo' = Calls(o) /\ saved' = FALSE
    BY <1>2, SizesAssumption DEF ReadOption, TInv, GInv, Building
  <2>2. Len(Calls(o)) \in Nat
    BY CallsProper
  <2>3. Done' = 0
    BY <2>1, <2>2 DEF Done
  <2>4. Progress'
    BY <2>1, <2>2, <2>3 DEF Progress
  <2>. QED
    BY <1>1, <2>1, <2>4 DEF TInv
<1>3. CASE Exhaust
  <2>1. /\ phase' = "exhausted" /\ bit' = NoBit /\ UNCHANGED <<left, option, todo, bit, circuit, tally, given, saved>>
    BY <1>3 DEF Exhaust
  <2>. QED
    BY <1>1, <2>1 DEF TInv, Progress
<1>4. CASE Finish
  <2>1. bit = NoBit /\ phase' = "done" /\ UNCHANGED <<left, option, todo, bit, circuit, tally, given, saved>>
    BY <1>4 DEF Finish, TInv, GInv, Building
  <2>. QED
    BY <1>1, <2>1 DEF TInv, Progress
<1>5. CASE UNCHANGED vars
  <2>1. UNCHANGED <<phase, left, option, todo, bit, circuit, tally, given, saved>>
    BY <1>5 DEF vars, control
  <2>2. call' = call /\ Done' = Done
    BY <2>1, SameCalls
  <2>. QED
    BY <1>1, <2>1, <2>2 DEF TInv, Progress
<1>6. CASE AssertFails
  <2>1. phase' = "aborted" /\ bit' = NoBit /\ UNCHANGED <<left, option, todo, circuit, tally, given, saved>>
    BY <1>6 DEF AssertFails
  <2>. QED
    BY <1>1, <2>1 DEF TInv, Progress
<1>. QED
  BY <1>2, <1>3, <1>4, <1>5, <1>6, CreateAllTyped, BuildTyped, EndCallTyped, SaveTyped DEF Next, Stopped

LEMMA TInitially == Init => TInv
<1>. SUFFICES ASSUME Init PROVE TInv
  OBVIOUS
<1>1. GInv /\ phase = "options" /\ bit = NoBit
  BY GInitially DEF Init
<1>2. circuit \in CircuitOver(DOMAIN circuit)
  BY DEF Init, CircuitOver
<1>3. left \in 0 .. MaxOptions
  BY SizesAssumption DEF Init
<1>4. Progress
  BY <1>1 DEF Progress
<1>5. option \in Options \cup {NoOption} /\ saved \in BOOLEAN
  BY DEF Init
<1>. QED
  BY <1>1, <1>2, <1>3, <1>4, <1>5 DEF TInv

(* Every node has its type and fanins that exist, and what a running call has  *)
(* created is there (modules.cpp, datapaths.cpp): no loop reaches a node that  *)
(* is not, whichever options come before.                                    *)
THEOREM NetlistTypeCorrect == Spec => []GenTypeOK
<1>1. TInv => GenTypeOK
  BY DEF TInv, GInv, GenTypeOK, CircuitOver, NodeOver
<1>. QED
  BY <1>1, TInitially, TSteps, PTL DEF Spec

----------------------------------------------------------------------------
(* What the file determines *)

(* Names that no gate drives, and names that no gate reads. *)
SinkPrefixes == {<<"s">>, <<"out">>, <<"z">>, <<"cout">>, <<"x_cout">>, <<"y_cout">>}
ZeroPrefixes == {<<"zero">>, <<"ZERO">>, <<"ZERO_19">>}
InputPrefixes == {<<"a">>, <<"b">>, <<"orig">>, <<"cin">>}
IsSink(n)  == n[1] \in SinkPrefixes
IsZero(n)  == n[1] \in ZeroPrefixes
IsOne(n)   == n[1] = <<"one">>
IsInput(n) == n[1] \in InputPrefixes \/ (n[1] \in {x, y} /\ n[2] < InBits)
IsLeaf(n)  == IsZero(n) \/ IsOne(n) \/ IsInput(n)

(* The operands of the adders and subtractors, by the name of their sum: the   *)
(* adder and the subtractor of the options share theirs.                      *)
Chain(q) ==
  CASE q = <<"s">>  -> [a |-> <<"a">>, b |-> <<"b">>, cin |-> Wire("cin")]
    [] q = fiveX    -> [a |-> x, b |-> fourX, cin |-> Wire("ZERO")]
    [] q = threeY   -> [a |-> y, b |-> twoY, cin |-> Wire("ZERO")]
    [] q = minus5X  -> [a |-> zeros, b |-> fiveX, cin |-> Wire("cin")]
    [] q = minus3Y  -> [a |-> zeros, b |-> threeY, cin |-> Wire("cin")]
    [] q = diff     -> [a |-> fiveX, b |-> threeY, cin |-> Wire("cin")]
ChainOuts == {<<"s">>, fiveX, threeY, minus5X, minus3Y, diff}

(* The one gate a name can have, unless it is a sink.  It is found from the    *)
(* last word of the name.                                                    *)
Gate(g, ins) == [gate |-> g, fanin |-> ins]
ChainCarry(q, i)  == IF i = 0 THEN Chain(q).cin ELSE Bit(Suffixed(q, "_c"), i - 1)
ChainBorrow(q, i) == IF i = 0 THEN Wire("zero") ELSE Bit(Suffixed(q, "_Bo"), i - 1)
Inner(q, w, i) ==
  LET a == Bit(Chain(q).a, i)
      b == Bit(Chain(q).b, i)
      wire(v) == Bit(Suffixed(q, v), i)
  IN CASE w = "_AB"       -> Gate("and2", <<a, b>>)
       [] w = "_AxorB"    -> Gate("xor3", <<Wire("zero"), a, b>>)
       [] w = "_ciAxorB"  -> Gate("and2", <<ChainCarry(q, i), wire("_AxorB")>>)
       [] w = "_c"        -> Gate("or2", <<wire("_AB"), wire("_ciAxorB")>>)
       [] w = "_notAxorB" -> Gate("xor3", <<Wire("zero"), wire("_AxorB"), Wire("one")>>)
       [] w = "_temp1"    -> Gate("and2", <<ChainBorrow(q, i), wire("_notAxorB")>>)
       [] w = "_notA"     -> Gate("xor3", <<Wire("zero"), a, Wire("one")>>)
       [] w = "_temp2"    -> Gate("and2", <<wire("_notA"), b>>)
       [] w = "_Bo"       -> Gate("or2", <<wire("_temp1"), wire("_temp2")>>)
InnerWords == {"_AB", "_AxorB", "_ciAxorB", "_c", "_notAxorB", "_temp1", "_notA", "_temp2", "_Bo"}
Sum(q, i, carry) == Gate("xor3", <<Bit(Chain(q).a, i), Bit(Chain(q).b, i), carry>>)
Moved(p, i) == Gate("buf1", <<IF i < 0 THEN Wire("ZERO") ELSE Bit(p, i)>>)
Base(p, i) ==
  CASE p \in {fiveX, threeY} -> Sum(p, i, ChainCarry(p, i))
    [] p \in {minus5X, minus3Y, diff} -> Sum(p, i, ChainBorrow(p, i))
    [] p = fourX -> Moved(x, i - 2)
    [] p = twoY  -> Moved(y, i - 1)
    [] p \in {x, y} -> Gate("buf1", <<Bit(p, InBits - 1)>>)
    [] p = <<"sel1">> -> Gate("or2", <<Bit(fiveX, Width - 1), Bit(threeY, Width - 1)>>)
    [] p = <<"sel2">> -> Gate("buf1", <<Bit(diff, Width - 1)>>)
Canon(n) ==
  IF Last(n[1]) \in InnerWords THEN Inner(Front(n[1]), Last(n[1]), n[2]) ELSE Base(n[1], n[2])

Arity == [buf1 |-> 1, or2 |-> 2, and2 |-> 2, xor3 |-> 3, mux4 |-> 6]
AllPorts == UNION {PortsOf(o).ins : o \in Options}

(* What a gate may read: a leaf, or what has its gate and keeps it. *)
Gated(c, n) == n \in DOMAIN c /\ c[n].gate # NoGate
Firm(c, n)  == n \in DOMAIN c /\ ~IsSink(n) /\ (IsLeaf(n) \/ Gated(c, n))

(* A node with a gate has the value its fanins give it; the leaves have theirs. *)
GateSound(c, n) ==
  /\ ~IsLeaf(n) /\ c[n].gate \in Gates /\ Len(c[n].fanin) = Arity[c[n].gate]
  /\ \A j \in DOMAIN c[n].fanin : Firm(c, c[n].fanin[j])
  /\ c[n].val = Value(c[n].gate, ValuesOf(c, c[n].fanin))
  /\ ~IsSink(n) => Gate(c[n].gate, c[n].fanin) = Canon(n)
LeafSound(c, n, v) ==
  /\ IF IsZero(n) THEN c[n].type = "zero" /\ c[n].val = 0
     ELSE IF IsOne(n) THEN c[n].type = "one" /\ c[n].val = 1
     ELSE c[n].type \notin {"zero", "one"}
  /\ IsInput(n) => c[n].val = IF n \in DOMAIN v THEN v[n] ELSE 0
  /\ c[n].type = "input" => n \in AllPorts
Sound(c, v) == \A n \in DOMAIN c : LeafSound(c, n, v) /\ (c[n].gate # NoGate => GateSound(c, n))

(* The names a call has driven at one bit, and whether it has up to some bit. *)
OutsAt(k, i) ==
  LET wire(w) == Bit(Suffixed(k.out, w), i)
  IN CASE k.op = "add" -> {Bit(k.out, i), wire("_AB"), wire("_AxorB"), wire("_ciAxorB"), CarryOut(k, i)}
       [] k.op = "sub" -> {Bit(k.out, i), wire("_AxorB"), wire("_notAxorB"), wire("_temp1"), wire("_notA"),
                           wire("_temp2"), wire("_Bo")}
       [] k.op = "shift"  -> {Bit(k.out, i)}
       [] k.op = "extend" -> {Bit(x, i), Bit(y, i)}
       [] k.op = "select" -> {Wire("sel1"), Wire("sel2")}
       [] k.op = "mux"    -> {Bit(z, i)}
       [] OTHER -> {}
MadeTo(c, k, i) == \A j \in First(k) .. (i - 1) : \A n \in OutsAt(k, j) : Gated(c, n)
Sized(k) == k.op = "add" => k.bits # 0

(* A node without a gate that is no leaf of the file yet. *)
Loose(c, n) == c[n].gate = NoGate /\ ~IsZero(n) /\ ~IsOne(n) /\ c[n].type # "input"

FInv ==
  /\ TInv /\ Sound(circuit, given) /\ IsFiniteSet(DOMAIN circuit) /\ Cardinality(DOMAIN circuit) <= Memory
  /\ phase = "build" =>
       \A i \in 1 .. Done : Sized(Calls(option)[i]) /\ MadeTo(circuit, Calls(option)[i], End(Calls(option)[i]))
  /\ bit # NoBit => Sized(call) /\ MadeTo(circuit, call, bit)
  /\ \A n \in DOMAIN circuit :
       Loose(circuit, n) => phase \in {"build", "exhausted", "aborted"} /\ n \in CreatedFor(option)
  /\ saved => phase \in {"options", "done"}

----------------------------------------------------------------------------
(* Making one gate *)

(* From c to d gates are made, and nothing else happens. *)
Grown(D, c, d, v) ==
  /\ d \in CircuitOver(D) /\ Sound(d, v)
  /\ \A m \in D : d[m].type = c[m].type /\ (Gated(c, m) => Gated(d, m))

LEMMA FirmStays ==
  ASSUME NEW D, NEW c \in CircuitOver(D), NEW d, NEW v, Grown(D, c, d, v), NEW m, Firm(c, m)
  PROVE  Firm(d, m)
  BY DEF Grown, Firm, Gated, CircuitOver

LEMMA GrownAgain ==
  ASSUME NEW D, NEW c \in CircuitOver(D), NEW d, NEW e, NEW v, Grown(D, c, d, v), Grown(D, d, e, v)
  PROVE  Grown(D, c, e, v)
  BY DEF Grown

(* Values that gates read are read again. *)
LEMMA SameValues ==
  ASSUME NEW c, NEW d, NEW ins, \A j \in DOMAIN ins : d[ins[j]].val = c[ins[j]].val
  PROVE  ValuesOf(d, ins) = ValuesOf(c, ins)
  BY DEF ValuesOf

(* Where the gate is there already nothing changes; where there is none, or    *)
(* where nothing reads it, no value that has been read does.                  *)
LEMMA MakeGate ==
  ASSUME NEW D, NEW c \in CircuitOver(D), NEW v, Sound(c, v),
         NEW n \in D, ~IsLeaf(n), NEW g \in Gates, NEW ins \in Seq(D), Len(ins) = Arity[g],
         \A j \in DOMAIN ins : Firm(c, ins[j]),
         ~IsSink(n) => Canon(n) = Gate(g, ins)
  PROVE  /\ Grown(D, c, SetGate(c, n, g, ins), v)
         /\ Gated(SetGate(c, n, g, ins), n)
<1>1. PICK d : d = SetGate(c, n, g, ins)
  OBVIOUS
<1>2. d \in CircuitOver(D) /\ DOMAIN d = D /\ DOMAIN c = D
  BY <1>1, GateTyped DEF CircuitOver
<1>3. PICK w : w = Value(g, ValuesOf(c, ins))
  OBVIOUS
<1>4. PICK o \in NodeOver(D) : o = c[n]
  BY DEF CircuitOver
<1>5. /\ d = [c EXCEPT ![n] = [o EXCEPT !.fanin = ins, !.gate = g, !.val = w]]
  BY <1>1, <1>3, <1>4 DEF SetGate
<1>6. /\ d[n].type = c[n].type /\ d[n].fanin = ins /\ d[n].gate = g /\ d[n].val = w
      /\ \A m \in D : m # n => d[m] = c[m]
  BY <1>2, <1>4, <1>5 DEF NodeOver
<1>7. g # NoGate
  BY DEF Gates, NoGate
<1>8. \A m \in D : d[m].type = c[m].type /\ (Gated(c, m) => Gated(d, m))
  BY <1>2, <1>6, <1>7 DEF Gated
<1>9. \A m : Firm(c, m) => Firm(d, m)
  BY <1>2, <1>8 DEF Firm
<1>10. CASE ~IsSink(n) /\ Gated(c, n)
  <2>1. GateSound(c, n)
    BY <1>2, <1>10 DEF Sound, Gated
  <2>2. Gate(c[n].gate, c[n].fanin) = Gate(g, ins)
    BY <1>10, <2>1 DEF GateSound
  <2>3. c[n].gate = g /\ c[n].fanin = ins
    BY <2>2 DEF Gate
  <2>4. c[n].val = w
    BY <1>3, <2>1, <2>3 DEF GateSound
  <2>5. [o EXCEPT !.fanin = ins, !.gate = g, !.val = w] = o
    BY <1>4, <2>3, <2>4 DEF NodeOver
  <2>6. d = c
    BY <1>4, <1>5, <2>5 DEF CircuitOver
  <2>. QED
    BY <1>1, <1>2, <1>6, <1>7, <1>8, <2>6 DEF Grown, Gated
<1>11. CASE IsSink(n) \/ ~Gated(c, n)
  <2>1. ~Firm(c, n)
    BY <1>11 DEF Firm
  <2>2. \A m : Firm(c, m) => d[m].val = c[m].val
    BY <1>2, <1>6, <2>1 DEF Firm
  <2>3. ASSUME NEW m \in D, d[m].gate # NoGate
        PROVE  GateSound(d, m)
    <3>1. CASE m = n
      <4>1. ValuesOf(d, ins) = ValuesOf(c, ins)
        BY <2>2, SameValues
      <4>2. d[m].val = Value(d[m].gate, ValuesOf(d, d[m].fanin))
        BY <1>3, <1>6, <3>1, <4>1
      <4>3. \A j \in DOMAIN d[m].fanin : Firm(d, d[m].fanin[j])
        BY <1>6, <1>9, <3>1
      <4>. QED
        BY <1>6, <3>1, <4>2, <4>3 DEF GateSound
    <3>2. CASE m # n
      <4>1. d[m] = c[m] /\ GateSound(c, m)
        BY <1>2, <1>6, <2>3, <3>2 DEF Sound
      <4>2. \A j \in DOMAIN c[m].fanin : Firm(c, c[m].fanin[j])
        BY <4>1 DEF GateSound
      <4>3. ValuesOf(d, c[m].fanin) = ValuesOf(c, c[m].fanin)
        BY <2>2, <4>2, SameValues
      <4>. QED
        BY <1>9, <4>1, <4>2, <4>3 DEF GateSound
    <3>. QED
      BY <3>1, <3>2
  <2>4. ASSUME NEW m \in D PROVE LeafSound(d, m, v)
    <3>1. LeafSound(c, m, v) /\ d[m].type = c[m].type
      BY <1>2, <1>8 DEF Sound
    <3>2. IsLeaf(m) => d[m] = c[m]
      BY <1>6
    <3>. QED
      BY <3>1, <3>2 DEF LeafSound, IsLeaf
  <2>5. Sound(d, v)
    BY <1>2, <2>3, <2>4 DEF Sound
  <2>. QED
    BY <1>1, <1>2, <1>6, <1>7, <1>8, <2>5 DEF Grown, Gated
<1>. QED
  BY <1>10, <1>11

LEMMA MakeGate1 ==
  ASSUME NEW D, NEW c \in CircuitOver(D), NEW v, Sound(c, v), NEW n \in D, ~IsLeaf(n),
         NEW a, Firm(c, a), ~IsSink(n) => Canon(n) = Gate("buf1", <<a>>)
  PROVE  /\ Grown(D, c, SetGate(c, n, "buf1", <<a>>), v)
         /\ Gated(SetGate(c, n, "buf1", <<a>>), n)
<1>1. PICK ins : ins = <<a>>
  OBVIOUS
<1>2. a \in D
  BY DEF Firm, CircuitOver
<1>3. ins \in Seq(D) /\ Len(ins) = 1 /\ \A j \in DOMAIN ins : ins[j] = a
  BY <1>1, <1>2
<1>4. "buf1" \in Gates /\ Arity["buf1"] = 1
  BY DEF Gates, Arity
<1>. QED
  BY <1>1, <1>3, <1>4, MakeGate

LEMMA MakeGate2 ==
  ASSUME NEW D, NEW c \in CircuitOver(D), NEW v, Sound(c, v), NEW n \in D, ~IsLeaf(n),
         NEW g \in {"or2", "and2"}, NEW a, NEW b, Firm(c, a), Firm(c, b),
         ~IsSink(n) => Canon(n) = Gate(g, <<a, b>>)
  PROVE  /\ Grown(D, c, SetGate(c, n, g, <<a, b>>), v)
         /\ Gated(SetGate(c, n, g, <<a, b>>), n)
<1>1. PICK ins : ins = <<a, b>>
  OBVIOUS
<1>2. a \in D /\ b \in D
  BY DEF Firm, CircuitOver
<1>3. ins \in Seq(D) /\ Len(ins) = 2 /\ \A j \in DOMAIN ins : ins[j] \in {a, b}
  BY <1>1, <1>2
<1>4. g \in Gates /\ Arity[g] = 2
  BY DEF Gates, Arity
<1>. QED
  BY <1>1, <1>3, <1>4, MakeGate

LEMMA MakeGate3 ==
  ASSUME NEW D, NEW c \in CircuitOver(D), NEW v, Sound(c, v), NEW n \in D, ~IsLeaf(n),
         NEW a, NEW b, NEW e, Firm(c, a), Firm(c, b), Firm(c, e),
         ~IsSink(n) => Canon(n) = Gate("xor3", <<a, b, e>>)
  PROVE  /\ Grown(D, c, SetGate(c, n, "xor3", <<a, b, e>>), v)
         /\ Gated(SetGate(c, n, "xor3", <<a, b, e>>), n)
<1>1. PICK ins : ins = <<a, b, e>>
  OBVIOUS
<1>2. a \in D /\ b \in D /\ e \in D
  BY DEF Firm, CircuitOver
<1>3. ins \in Seq(D) /\ Len(ins) = 3 /\ \A j \in DOMAIN ins : ins[j] \in {a, b, e}
  BY <1>1, <1>2
<1>4. "xor3" \in Gates /\ Arity["xor3"] = 3
  BY DEF Gates, Arity
<1>. QED
  BY <1>1, <1>3, <1>4, MakeGate

----------------------------------------------------------------------------
(* What names say *)

LEMMA BitIs == \A p, i : Bit(p, i)[1] = p /\ Bit(p, i)[2] = i
  BY DEF Bit
LEMMA WireIs == \A w : Wire(w) = Bit(<<w>>, NoBit)
  BY DEF Wire, Bit

(* Sinks and leaves have prefixes of one word. *)
LEMMA LongName ==
  ASSUME NEW p \in Seq(Words), Len(p) >= 2, NEW i
  PROVE  ~IsSink(Bit(p, i)) /\ ~IsLeaf(Bit(p, i))
<1>1. \A w : Len(<<w>>) = 1
  OBVIOUS
<1>2. \A w : p # <<w>>
  <2>. SUFFICES ASSUME NEW w, p = <<w>> PROVE FALSE
    OBVIOUS
  <2>1. Len(p) = 1
    BY <1>1
  <2>. QED
    BY <2>1
<1>3. p \notin SinkPrefixes \cup ZeroPrefixes \cup {<<"one">>} \cup InputPrefixes \cup {x, y}
  BY <1>2 DEF SinkPrefixes, ZeroPrefixes, InputPrefixes, x, y
<1>. QED
  BY <1>3, BitIs DEF IsSink, IsLeaf, IsZero, IsOne, IsInput

LEMMA LastFront ==
  ASSUME NEW p \in Seq(Words), NEW w \in Words
  PROVE  Last(Suffixed(p, w)) = w /\ Front(Suffixed(p, w)) = p
<1>1. PICK s : s = Suffixed(p, w)
  OBVIOUS
<1>2. s \in Seq(Words) /\ Len(s) = Len(p) + 1 /\ s[Len(p) + 1] = w /\ Len(p) \in Nat
  BY <1>1, SuffixIs, LenProperties
<1>3. Last(s) = w
  BY <1>2 DEF Last
<1>4. \A i \in 1 .. Len(p) : s[i] = p[i]
  BY <1>1, OneElement, ConcatProperties DEF Suffixed
<1>5. Front(s) \in Seq(Words) /\ Len(Front(s)) = Len(p) /\ \A i \in 1 .. Len(p) : Front(s)[i] = s[i]
  <2>1. Front(s) = SubSeq(s, 1, Len(p))
    BY <1>2 DEF Front
  <2>. QED
    BY <1>2, <2>1
<1>6. Front(s) = p
  BY <1>4, <1>5, SeqEqual
<1>. QED
  BY <1>1, <1>3, <1>6

LEMMA PairWords ==
  /\ \A p \in {fiveX, threeY, minus5X, minus3Y, diff, fourX, twoY} : p \in Seq(Words) /\ Len(p) = 2
<1>1. /\ Len(fiveX) = 2 /\ Len(threeY) = 2 /\ Len(minus5X) = 2 /\ Len(minus3Y) = 2
      /\ Len(diff) = 2 /\ Len(fourX) = 2 /\ Len(twoY) = 2
  BY DEF fiveX, threeY, minus5X, minus3Y, diff, fourX, twoY
<1>. QED
  BY <1>1, PrefixWords

LEMMA ChainWords ==
  ASSUME NEW q \in ChainOuts
  PROVE  q \in Seq(Words) /\ Len(q) >= 1 /\ (q # <<"s">> => Len(q) >= 2)
<1>1. CASE q = <<"s">>
  <2>1. "s" \in Words
    BY DEF Words
  <2>. QED
    BY <1>1, <2>1, OneElement
<1>2. CASE q # <<"s">>
  <2>1. q \in {fiveX, threeY, minus5X, minus3Y, diff}
    BY <1>2 DEF ChainOuts
  <2>2. q \in Seq(Words) /\ Len(q) = 2
    BY <2>1, PairWords
  <2>. QED
    BY <2>2
<1>. QED
  BY <1>1, <1>2

(* The inner wires of a chain. *)
LEMMA CanonInner ==
  ASSUME NEW q \in ChainOuts, NEW w \in InnerWords, NEW i
  PROVE  LET n == Bit(Suffixed(q, w), i)
         IN ~IsSink(n) /\ ~IsLeaf(n) /\ Canon(n) = Inner(q, w, i)
<1>1. w \in Words /\ q \in Seq(Words) /\ Len(q) >= 1
  BY ChainWords DEF InnerWords, Words
<1>2. PICK p : p = Suffixed(q, w)
  OBVIOUS
<1>3. p \in Seq(Words) /\ Len(p) >= 2 /\ Last(p) = w /\ Front(p) = q
  BY <1>1, <1>2, SuffixIs, LastFront
<1>4. Canon(Bit(p, i)) = Inner(q, w, i)
  BY <1>3, BitIs DEF Canon
<1>. QED
  BY <1>2, <1>3, <1>4, LongName

(* The other wires that gates read. *)
BasePrefixes == {fiveX, threeY, minus5X, minus3Y, diff, fourX, twoY, x, y, <<"sel1">>, <<"sel2">>}
LEMMA BasesApart ==
  LET singles == {x, y, <<"sel1">>, <<"sel2">>}
  IN /\ \A p \in {fiveX, threeY} : p \notin {minus5X, minus3Y, diff, fourX, twoY} \cup singles
     /\ \A p \in {minus5X, minus3Y, diff} : p \notin {fourX, twoY} \cup singles
     /\ fourX # twoY /\ fourX \notin singles /\ twoY \notin singles
     /\ x # y /\ x \notin {<<"sel1">>, <<"sel2">>} /\ y \notin {<<"sel1">>, <<"sel2">>} /\ <<"sel1">> # <<"sel2">>
<1>1. \A u, v, w : <<u, v>> # <<w>>
  OBVIOUS
<1>2. \A t, u, v, w : <<t, u>> = <<v, w>> => u = w
  OBVIOUS
<1>3. \A v, w : <<v>> = <<w>> => v = w
  OBVIOUS
<1>. QED
  BY <1>1, <1>2, <1>3 DEF fiveX, threeY, minus5X, minus3Y, diff, fourX, twoY, x, y

LEMMA CanonBase ==
  ASSUME NEW p \in BasePrefixes, NEW i
  PROVE  /\ Canon(Bit(p, i)) = Base(p, i) /\ ~IsSink(Bit(p, i))
         /\ p \notin {x, y} => ~IsLeaf(Bit(p, i))
<1>1. \A v, w : Last(<<v, w>>) = w /\ Last(<<v>>) = v
  BY DEF Last
<1>2. Last(p) \notin InnerWords
  BY <1>1 DEF BasePrefixes, InnerWords, fiveX, threeY, minus5X, minus3Y, diff, fourX, twoY, x, y
<1>3. Canon(Bit(p, i)) = Base(p, i)
  BY <1>2, BitIs DEF Canon
<1>4. p \in {fiveX, threeY, minus5X, minus3Y, diff, fourX, twoY} => ~IsSink(Bit(p, i)) /\ ~IsLeaf(Bit(p, i))
  <2>. SUFFICES ASSUME p \in {fiveX, threeY, minus5X, minus3Y, diff, fourX, twoY}
                PROVE  ~IsSink(Bit(p, i)) /\ ~IsLeaf(Bit(p, i))
    OBVIOUS
  <2>1. p \in Seq(Words) /\ Len(p) = 2
    BY PairWords
  <2>2. Len(p) >= 2
    BY <2>1
  <2>. QED
    BY <2>1, <2>2, LongName
<1>5. \A v, w : <<v>> = <<w>> => v = w
  OBVIOUS
<1>6. p \in {x, y, <<"sel1">>, <<"sel2">>} => p \notin SinkPrefixes
  BY <1>5 DEF SinkPrefixes, x, y
<1>7. p \in {<<"sel1">>, <<"sel2">>} => p \notin ZeroPrefixes \cup {<<"one">>} \cup InputPrefixes \cup {x, y}
  BY <1>5 DEF ZeroPrefixes, InputPrefixes, x, y
<1>. QED
  BY <1>3, <1>4, <1>6, <1>7, BitIs DEF BasePrefixes, IsSink, IsLeaf, IsZero, IsOne, IsInput

(* The names that are sinks, and those that are leaves. *)
LEMMA SinkNames ==
  ASSUME NEW n, n[1] \in SinkPrefixes
  PROVE  IsSink(n) /\ ~IsLeaf(n)
<1>1. \A v, w : <<v>> = <<w>> => v = w
  OBVIOUS
<1>2. \A p \in SinkPrefixes : p \notin ZeroPrefixes \cup {<<"one">>} \cup InputPrefixes \cup {x, y}
  BY <1>1 DEF SinkPrefixes, ZeroPrefixes, InputPrefixes, x, y
<1>. QED
  BY <1>2 DEF IsSink, IsLeaf, IsZero, IsOne, IsInput

LEMMA LeafNames ==
  ASSUME NEW n, IsLeaf(n)
  PROVE  ~IsSink(n)
  BY SinkNames DEF IsSink

(* The adders and subtractors of every option. *)
ChainCall(k) ==
  /\ k.out \in ChainOuts /\ Chain(k.out) = [a |-> k.a, b |-> k.b, cin |-> k.cin]
  /\ k.out # <<"s">> => (k.op = "add" <=> k.out \in {fiveX, threeY})
  /\ k.op = "add" => k.cout[1] \in SinkPrefixes

LEMMA ChainCalls ==
  ASSUME NEW o \in Option, NEW i \in 1 .. Len(Calls(o)), Calls(o)[i].op \in {"add", "sub"}
  PROVE  ChainCall(Calls(o)[i])
<1>1. /\ \A q \in {fiveX, threeY, minus5X, minus3Y, diff} : q # <<"s">>
      /\ fiveX # threeY /\ fiveX # minus5X /\ fiveX # minus3Y /\ fiveX # diff
      /\ threeY # minus5X /\ threeY # minus3Y /\ threeY # diff
      /\ minus5X # minus3Y /\ minus5X # diff /\ minus3Y # diff
  BY DEF fiveX, threeY, minus5X, minus3Y, diff
<1>2. /\ Chain(<<"s">>) = [a |-> <<"a">>, b |-> <<"b">>, cin |-> Wire("cin")]
      /\ Chain(fiveX) = [a |-> x, b |-> fourX, cin |-> Wire("ZERO")]
      /\ Chain(threeY) = [a |-> y, b |-> twoY, cin |-> Wire("ZERO")]
      /\ Chain(minus5X) = [a |-> zeros, b |-> fiveX, cin |-> Wire("cin")]
      /\ Chain(minus3Y) = [a |-> zeros, b |-> threeY, cin |-> Wire("cin")]
      /\ Chain(diff) = [a |-> fiveX, b |-> threeY, cin |-> Wire("cin")]
  BY <1>1 DEF Chain
<1>3. \A w \in {"cout", "x_cout", "y_cout"} : Wire(w)[1] \in SinkPrefixes
  <2>1. \A w : Wire(w)[1] = <<w>>
    BY WireIs, BitIs
  <2>. QED
    BY <2>1 DEF SinkPrefixes
<1>4. PICK k : k = Calls(o)[i]
  OBVIOUS
<1>5. CASE o.op # "absmin"
  <2>1. i = 1 /\ k.op = o.op
    BY <1>4, <1>5, OneCall
  <2>2. CASE k.op = "add"
    <3>1. k = CallOf("add", <<"a">>, <<"b">>, <<"s">>, Wire("cin"), Wire("cout"), o.bits, 0)
      BY <1>4, <1>5, <2>1, <2>2, OneCall
    <3>. QED
      BY <1>2, <1>3, <1>4, <2>2, <3>1, FieldsOf DEF ChainCall, ChainOuts
  <2>3. CASE k.op = "sub"
    <3>1. k = CallOf("sub", <<"a">>, <<"b">>, <<"s">>, Wire("cin"), Wire("cout"), o.bits, 0)
      BY <1>4, <1>5, <2>1, <2>3, OneCall
    <3>. QED
      BY <1>2, <1>4, <2>3, <3>1, FieldsOf DEF ChainCall, ChainOuts
  <2>. QED
    BY <1>4, <2>2, <2>3
<1>6. CASE o.op = "absmin"
  <2>1. Calls(o) = AbsMinCalls /\ i \in 1 .. 12
    BY <1>6, AbsMinAt DEF Calls
  <2>2. i \in {5, 7, 8, 9, 10}
    <3>1. /\ AbsMinCalls[1].op = "ports" /\ AbsMinCalls[2].op = "extend" /\ AbsMinCalls[3].op = "zero"
          /\ AbsMinCalls[4].op = "shift" /\ AbsMinCalls[6].op = "shift"
          /\ AbsMinCalls[11].op = "select" /\ AbsMinCalls[12].op = "mux"
      BY AbsMinAt, FieldsOf
    <3>. QED
      BY <2>1, <3>1
  <2>3. CASE i = 5
    BY <1>1, <1>2, <1>3, <2>1, <2>3, AbsMinAt, FieldsOf DEF ChainCall, ChainOuts
  <2>4. CASE i = 7
    BY <1>1, <1>2, <1>3, <2>1, <2>4, AbsMinAt, FieldsOf DEF ChainCall, ChainOuts
  <2>5. CASE i = 8
    BY <1>1, <1>2, <2>1, <2>5, AbsMinAt, FieldsOf DEF ChainCall, ChainOuts
  <2>6. CASE i = 9
    BY <1>1, <1>2, <2>1, <2>6, AbsMinAt, FieldsOf DEF ChainCall, ChainOuts
  <2>7. CASE i = 10
    BY <1>1, <1>2, <2>1, <2>7, AbsMinAt, FieldsOf DEF ChainCall, ChainOuts
  <2>. QED
    BY <2>2, <2>3, <2>4, <2>5, <2>6, <2>7
<1>. QED
  BY <1>5, <1>6

(* The gates of one bit, by their names. *)
LEMMA AdderCanon ==
  ASSUME NEW k, ChainCall(k), k.op = "add", NEW i
  PROVE  LET a    == Bit(k.a, i)
             b    == Bit(k.b, i)
             ci   == CarryIn(k, i)
             s    == Bit(k.out, i)
             ab   == Bit(Suffixed(k.out, "_AB"), i)
             axb  == Bit(Suffixed(k.out, "_AxorB"), i)
             caxb == Bit(Suffixed(k.out, "_ciAxorB"), i)
             co   == CarryOut(k, i)
         IN /\ ~IsLeaf(s) /\ (~IsSink(s) => Canon(s) = Gate("xor3", <<a, b, ci>>))
            /\ ~IsLeaf(ab) /\ ~IsSink(ab) /\ Canon(ab) = Gate("and2", <<a, b>>)
            /\ ~IsLeaf(axb) /\ ~IsSink(axb) /\ Canon(axb) = Gate("xor3", <<Wire("zero"), a, b>>)
            /\ ~IsLeaf(caxb) /\ ~IsSink(caxb) /\ Canon(caxb) = Gate("and2", <<ci, axb>>)
            /\ ~IsLeaf(co) /\ (~IsSink(co) => Canon(co) = Gate("or2", <<ab, caxb>>))
<1>1. PICK q \in ChainOuts : q = k.out
  BY DEF ChainCall
<1>2. Chain(q).a = k.a /\ Chain(q).b = k.b /\ Chain(q).cin = k.cin
  BY <1>1 DEF ChainCall
<1>3. CarryIn(k, i) = ChainCarry(q, i)
  BY <1>1, <1>2 DEF CarryIn, ChainCarry, Suffixed
<1>4. /\ Inner(q, "_AB", i) = Gate("and2", <<Bit(k.a, i), Bit(k.b, i)>>)
      /\ Inner(q, "_AxorB", i) = Gate("xor3", <<Wire("zero"), Bit(k.a, i), Bit(k.b, i)>>)
      /\ Inner(q, "_ciAxorB", i) = Gate("and2", <<CarryIn(k, i), Bit(Suffixed(q, "_AxorB"), i)>>)
      /\ Inner(q, "_c", i) = Gate("or2", <<Bit(Suffixed(q, "_AB"), i), Bit(Suffixed(q, "_ciAxorB"), i)>>)
  BY <1>2, <1>3 DEF Inner
<1>5. \A w \in {"_AB", "_AxorB", "_ciAxorB", "_c"} :
        LET n == Bit(Suffixed(q, w), i) IN ~IsSink(n) /\ ~IsLeaf(n) /\ Canon(n) = Inner(q, w, i)
  BY CanonInner DEF InnerWords
<1>6. PICK s : s = Bit(q, i)
  OBVIOUS
<1>7. ~IsLeaf(s) /\ (~IsSink(s) => Canon(s) = Gate("xor3", <<Bit(k.a, i), Bit(k.b, i), CarryIn(k, i)>>))
  <2>1. CASE q = <<"s">>
    <3>1. s[1] \in SinkPrefixes
      BY <1>6, <2>1, BitIs DEF SinkPrefixes
    <3>. QED
      BY <3>1, SinkNames
  <2>2. CASE q # <<"s">>
    <3>1. q \in {fiveX, threeY} /\ q \in BasePrefixes
      BY <1>1, <2>2 DEF ChainCall, BasePrefixes
    <3>2. Canon(s) = Base(q, i)
      BY <1>6, <3>1, CanonBase
    <3>3. Base(q, i) = Sum(q, i, ChainCarry(q, i))
      BY <3>1, BasesApart DEF Base
    <3>4. Canon(s) = Gate("xor3", <<Bit(k.a, i), Bit(k.b, i), CarryIn(k, i)>>)
      BY <1>2, <1>3, <3>2, <3>3 DEF Sum
    <3>5. q \notin {x, y}
      BY <3>1 DEF fiveX, threeY, x, y
    <3>. QED
      BY <1>6, <3>1, <3>4, <3>5, CanonBase
  <2>. QED
    BY <2>1, <2>2
<1>8. PICK co : co = CarryOut(k, i)
  OBVIOUS
<1>9. ~IsLeaf(co) /\ (~IsSink(co) => Canon(co) = Inner(q, "_c", i))
  <2>1. CASE i = Less(k.bits)
    <3>1. co[1] \in SinkPrefixes
      BY <1>8, <2>1 DEF CarryOut, ChainCall
    <3>. QED
      BY <3>1, SinkNames
  <2>2. CASE i # Less(k.bits)
    <3>1. co = Bit(Suffixed(q, "_c"), i)
      BY <1>1, <1>8, <2>2 DEF CarryOut, Suffixed
    <3>. QED
      BY <1>5, <3>1
  <2>. QED
    BY <2>1, <2>2
<1>. QED
  BY <1>1, <1>4, <1>5, <1>6, <1>7, <1>8, <1>9

LEMMA SubtractorCanon ==
  ASSUME NEW k, ChainCall(k), k.op = "sub", NEW i
  PROVE  LET a    == Bit(k.a, i)
             b    == Bit(k.b, i)
             bi   == BorrowIn(k, i)
             s    == Bit(k.out, i)
             axb  == Bit(Suffixed(k.out, "_AxorB"), i)
             naxb == Bit(Suffixed(k.out, "_notAxorB"), i)
             t1   == Bit(Suffixed(k.out, "_temp1"), i)
             na   == Bit(Suffixed(k.out, "_notA"), i)
             t2   == Bit(Suffixed(k.out, "_temp2"), i)
             bo   == Bit(Suffixed(k.out, "_Bo"), i)
         IN /\ ~IsLeaf(s) /\ (~IsSink(s) => Canon(s) = Gate("xor3", <<a, b, bi>>))
            /\ ~IsLeaf(axb) /\ ~IsSink(axb) /\ Canon(axb) = Gate("xor3", <<Wire("zero"), a, b>>)
            /\ ~IsLeaf(naxb) /\ ~IsSink(naxb) /\ Canon(naxb) = Gate("xor3", <<Wire("zero"), axb, Wire("one")>>)
            /\ ~IsLeaf(t1) /\ ~IsSink(t1) /\ Canon(t1) = Gate("and2", <<bi, naxb>>)
            /\ ~IsLeaf(na) /\ ~IsSink(na) /\ Canon(na) = Gate("xor3", <<Wire("zero"), a, Wire("one")>>)
            /\ ~IsLeaf(t2) /\ ~IsSink(t2) /\ Canon(t2) = Gate("and2", <<na, b>>)
            /\ ~IsLeaf(bo) /\ ~IsSink(bo) /\ Canon(bo) = Gate("or2", <<t1, t2>>)
<1>1. PICK q \in ChainOuts : q = k.out
  BY DEF ChainCall
<1>2. Chain(q).a = k.a /\ Chain(q).b = k.b
  BY <1>1 DEF ChainCall
<1>3. BorrowIn(k, i) = ChainBorrow(q, i)
  BY <1>1 DEF BorrowIn, ChainBorrow, Suffixed
<1>4. /\ Inner(q, "_AxorB", i) = Gate("xor3", <<Wire("zero"), Bit(k.a, i), Bit(k.b, i)>>)
      /\ Inner(q, "_notAxorB", i) = Gate("xor3", <<Wire("zero"), Bit(Suffixed(q, "_AxorB"), i), Wire("one")>>)
      /\ Inner(q, "_temp1", i) = Gate("and2", <<BorrowIn(k, i), Bit(Suffixed(q, "_notAxorB"), i)>>)
      /\ Inner(q, "_notA", i) = Gate("xor3", <<Wire("zero"), Bit(k.a, i), Wire("one")>>)
      /\ Inner(q, "_temp2", i) = Gate("and2", <<Bit(Suffixed(q, "_notA"), i), Bit(k.b, i)>>)
      /\ Inner(q, "_Bo", i) = Gate("or2", <<Bit(Suffixed(q, "_temp1"), i), Bit(Suffixed(q, "_temp2"), i)>>)
  BY <1>2, <1>3 DEF Inner
<1>5. \A w \in {"_AxorB", "_notAxorB", "_temp1", "_notA", "_temp2", "_Bo"} :
        LET n == Bit(Suffixed(q, w), i) IN ~IsSink(n) /\ ~IsLeaf(n) /\ Canon(n) = Inner(q, w, i)
  BY CanonInner DEF InnerWords
<1>6. PICK s : s = Bit(q, i)
  OBVIOUS
<1>7. ~IsLeaf(s) /\ (~IsSink(s) => Canon(s) = Gate("xor3", <<Bit(k.a, i), Bit(k.b, i), BorrowIn(k, i)>>))
  <2>1. CASE q = <<"s">>
    <3>1. s[1] \in SinkPrefixes
      BY <1>6, <2>1, BitIs DEF SinkPrefixes
    <3>. QED
      BY <3>1, SinkNames
  <2>2. CASE q # <<"s">>
    <3>1. q \notin {fiveX, threeY} /\ q \in {minus5X, minus3Y, diff} /\ q \in BasePrefixes
      BY <1>1, <2>2 DEF ChainCall, BasePrefixes, ChainOuts
    <3>2. Canon(s) = Base(q, i)
      BY <1>6, <3>1, CanonBase
    <3>3. Base(q, i) = Sum(q, i, ChainBorrow(q, i))
      BY <3>1, BasesApart DEF Base
    <3>4. Canon(s) = Gate("xor3", <<Bit(k.a, i), Bit(k.b, i), BorrowIn(k, i)>>)
      BY <1>2, <1>3, <3>2, <3>3 DEF Sum
    <3>5. q \notin {x, y}
      BY <3>1 DEF minus5X, minus3Y, diff, x, y
    <3>. QED
      BY <1>6, <3>1, <3>4, <3>5, CanonBase
  <2>. QED
    BY <2>1, <2>2
<1>. QED
  BY <1>1, <1>4, <1>5, <1>6, <1>7

----------------------------------------------------------------------------
(* Every gate is made from operands that stay *)

LEMMA EarlierMade ==
  ASSUME FInv, Building, NEW i \in 1 .. Done, NEW j,
         j \in First(Calls(option)[i]) .. (End(Calls(option)[i]) - 1), NEW n \in OutsAt(Calls(option)[i], j)
  PROVE  Gated(circuit, n)
  BY DEF FInv, Building, MadeTo

(* What is ready when a call of abs(min(5x,3y)) begins. *)
LEMMA DatapathFirm ==
  ASSUME FInv, Building, option.op = "absmin", NEW i \in 0 .. (Width - 1)
  PROVE  /\ Done >= 2  => Firm(circuit, Bit(x, i)) /\ Firm(circuit, Bit(y, i)) /\ Firm(circuit, Bit(zeros, i))
         /\ Done >= 4  => Firm(circuit, Bit(fourX, i))
         /\ Done >= 5  => Firm(circuit, Bit(fiveX, i))
         /\ Done >= 6  => Firm(circuit, Bit(twoY, i))
         /\ Done >= 7  => Firm(circuit, Bit(threeY, i))
         /\ Done >= 8  => Firm(circuit, Bit(minus5X, i))
         /\ Done >= 9  => Firm(circuit, Bit(minus3Y, i))
         /\ Done >= 10 => Firm(circuit, Bit(diff, i))
         /\ Done >= 11 => Firm(circuit, Wire("sel1")) /\ Firm(circuit, Wire("sel2"))
<1>1. TInv /\ Done \in Nat /\ Calls(option) = AbsMinCalls
  BY CallAt DEF FInv, Calls
<1>2. \A j \in 1 .. Done : Created(AbsMinCalls[j]) \subseteq DOMAIN circuit
  BY <1>1, EarlierThere
<1>3. \A j \in 1 .. Done : \A b \in First(AbsMinCalls[j]) .. (End(AbsMinCalls[j]) - 1) :
        \A n \in OutsAt(AbsMinCalls[j], b) : Gated(circuit, n)
  BY <1>1, EarlierMade
<1>4. Width \in Nat /\ InBits \in Nat /\ InBits <= Width
  BY SizesAssumption DEF Width
<1>5. \A p \in BasePrefixes : \A j : ~IsSink(Bit(p, j))
  BY CanonBase
<1>6. Done >= 2  => Firm(circuit, Bit(x, i)) /\ Firm(circuit, Bit(y, i)) /\ Firm(circuit, Bit(zeros, i))
  <2>. SUFFICES ASSUME Done >= 2
                PROVE  Firm(circuit, Bit(x, i)) /\ Firm(circuit, Bit(y, i)) /\ Firm(circuit, Bit(zeros, i))
    OBVIOUS
  <2>1. Bit(x, i) \in DOMAIN circuit /\ Bit(y, i) \in DOMAIN circuit
    BY <1>1, <1>2, AbsMinCreates
  <2>2. AbsMinCalls[1].op = "ports" /\ AbsMinCalls[2].op = "extend"
    BY AbsMinAt, FieldsOf
  <2>3. i >= InBits => Gated(circuit, Bit(x, i)) /\ Gated(circuit, Bit(y, i))
    <3>1. First(AbsMinCalls[2]) = InBits /\ End(AbsMinCalls[2]) = Width /\ OutsAt(AbsMinCalls[2], i) = {Bit(x, i), Bit(y, i)}
      BY <2>2 DEF First, End, OutsAt
    <3>2. i >= InBits => i \in InBits .. (Width - 1)
      BY <1>4
    <3>. QED
      BY <1>1, <1>3, <3>1, <3>2
  <2>4. i < InBits => IsLeaf(Bit(x, i)) /\ IsLeaf(Bit(y, i))
    BY BitIs DEF IsLeaf, IsInput
  <2>5. Bit(zeros, i) \in DOMAIN circuit
    BY <1>1, <1>2, <1>4, <2>2, BitsHave DEF Created
  <2>6. IsLeaf(Bit(zeros, i))
    BY BitIs DEF IsLeaf, IsZero, ZeroPrefixes, zeros
  <2>. QED
    BY <1>4, <1>5, <2>1, <2>3, <2>4, <2>5, <2>6, LeafNames DEF Firm, BasePrefixes
<1>7. ASSUME NEW j \in {4, 5, 6, 7, 8, 9, 10}, j <= Done, AbsMinCalls[j].op \in {"add", "sub", "shift"},
             AbsMinCalls[j].bits = Width, AbsMinCalls[j].shift \in 0 .. 2, AbsMinCalls[j].out \in BasePrefixes
      PROVE  Firm(circuit, Bit(AbsMinCalls[j].out, i))
  <2>1. PICK k : k = AbsMinCalls[j]
    OBVIOUS
  <2>2. First(k) = 0 /\ i \in 0 .. (End(k) - 1)
    BY <1>4, <1>7, <2>1, WordLoop
  <2>3. Bit(k.out, i) \in OutsAt(k, i)
    BY <1>7, <2>1 DEF OutsAt
  <2>4. Gated(circuit, Bit(k.out, i))
    BY <1>1, <1>3, <1>7, <2>1, <2>2, <2>3
  <2>. QED
    BY <1>5, <1>7, <2>1, <2>4 DEF Firm, Gated
<1>8. \A p \in {fourX, fiveX, twoY, threeY, minus5X, minus3Y, diff} : p \in BasePrefixes
  BY DEF BasePrefixes
<1>9. /\ AbsMinCalls[4].op = "shift" /\ AbsMinCalls[4].bits = Width /\ AbsMinCalls[4].shift = 2 /\ AbsMinCalls[4].out = fourX
      /\ AbsMinCalls[5].op = "add" /\ AbsMinCalls[5].bits = Width /\ AbsMinCalls[5].shift = 0 /\ AbsMinCalls[5].out = fiveX
      /\ AbsMinCalls[6].op = "shift" /\ AbsMinCalls[6].bits = Width /\ AbsMinCalls[6].shift = 1 /\ AbsMinCalls[6].out = twoY
      /\ AbsMinCalls[7].op = "add" /\ AbsMinCalls[7].bits = Width /\ AbsMinCalls[7].shift = 0 /\ AbsMinCalls[7].out = threeY
      /\ AbsMinCalls[8].op = "sub" /\ AbsMinCalls[8].bits = Width /\ AbsMinCalls[8].shift = 0 /\ AbsMinCalls[8].out = minus5X
      /\ AbsMinCalls[9].op = "sub" /\ AbsMinCalls[9].bits = Width /\ AbsMinCalls[9].shift = 0 /\ AbsMinCalls[9].out = minus3Y
      /\ AbsMinCalls[10].op = "sub" /\ AbsMinCalls[10].bits = Width /\ AbsMinCalls[10].shift = 0 /\ AbsMinCalls[10].out = diff
      /\ AbsMinCalls[11].op = "select"
  BY AbsMinAt, FieldsOf
<1>10. Done >= 4  => Firm(circuit, Bit(fourX, i))
  BY <1>1, <1>7, <1>8, <1>9
<1>11. Done >= 5  => Firm(circuit, Bit(fiveX, i))
  BY <1>1, <1>7, <1>8, <1>9
<1>12. Done >= 6  => Firm(circuit, Bit(twoY, i))
  BY <1>1, <1>7, <1>8, <1>9
<1>13. Done >= 7  => Firm(circuit, Bit(threeY, i))
  BY <1>1, <1>7, <1>8, <1>9
<1>14. Done >= 8  => Firm(circuit, Bit(minus5X, i))
  BY <1>1, <1>7, <1>8, <1>9
<1>15. Done >= 9  => Firm(circuit, Bit(minus3Y, i))
  BY <1>1, <1>7, <1>8, <1>9
<1>16. Done >= 10 => Firm(circuit, Bit(diff, i))
  BY <1>1, <1>7, <1>8, <1>9
<1>17. Done >= 11 => Firm(circuit, Wire("sel1")) /\ Firm(circuit, Wire("sel2"))
  <2>. SUFFICES ASSUME Done >= 11 PROVE Firm(circuit, Wire("sel1")) /\ Firm(circuit, Wire("sel2"))
    OBVIOUS
  <2>1. First(AbsMinCalls[11]) = 0 /\ End(AbsMinCalls[11]) = 1
        /\ OutsAt(AbsMinCalls[11], 0) = {Wire("sel1"), Wire("sel2")}
    BY <1>9 DEF First, End, OutsAt
  <2>2. 0 \in 0 .. (1 - 1) /\ 11 \in 1 .. Done
    BY <1>1
  <2>3. Gated(circuit, Wire("sel1")) /\ Gated(circuit, Wire("sel2"))
    BY <1>3, <2>1, <2>2
  <2>4. <<"sel1">> \in BasePrefixes /\ <<"sel2">> \in BasePrefixes
    BY DEF BasePrefixes
  <2>. QED
    BY <1>5, <2>3, <2>4, WireIs DEF Firm, Gated
<1>. QED
  BY <1>6, <1>10, <1>11, <1>12, <1>13, <1>14, <1>15, <1>16, <1>17

(* The operands of an adder or a subtractor, and its constants. *)
LEMMA ChainOperands ==
  ASSUME FInv, Building, bit # NoBit, call.op \in {"add", "sub"}, NEW i \in 0 .. (call.bits - 1)
  PROVE  /\ Firm(circuit, Bit(call.a, i)) /\ Firm(circuit, Bit(call.b, i))
         /\ call.op = "add" => Firm(circuit, call.cin)
         /\ Firm(circuit, Wire("zero"))
         /\ call.op = "sub" => Firm(circuit, Wire("one"))
<1>1. /\ TInv /\ option \in Option /\ Done + 1 \in 1 .. Len(Calls(option)) /\ call = Calls(option)[Done + 1]
      /\ Done \in Nat /\ call \in ProperCalls /\ Created(call) \subseteq DOMAIN circuit
  BY CallAt DEF FInv, TInv
<1>2. PICK k \in ProperCalls : k = call
  BY <1>1
<1>3. /\ Bit(k.a, i) \in DOMAIN circuit /\ Bit(k.b, i) \in DOMAIN circuit /\ Wire("zero") \in DOMAIN circuit
      /\ k.op = "add" => k.cin \in DOMAIN circuit
      /\ k.op = "sub" => Wire("one") \in DOMAIN circuit
  BY <1>1, <1>2, AddCreates, SubCreates
<1>4. IsLeaf(Wire("zero")) /\ IsLeaf(Wire("one")) /\ IsLeaf(Wire("ZERO")) /\ IsLeaf(Wire("cin"))
  BY WireIs, BitIs DEF IsLeaf, IsZero, IsOne, IsInput, ZeroPrefixes, InputPrefixes
<1>5. Firm(circuit, Wire("zero")) /\ (k.op = "sub" => Firm(circuit, Wire("one")))
  BY <1>3, <1>4, LeafNames DEF Firm
<1>6. CASE option.op # "absmin"
  <2>1. Done + 1 = 1 /\ k.op = option.op
    BY <1>1, <1>2, <1>6, OneCall
  <2>2. k.a = <<"a">> /\ k.b = <<"b">> /\ k.cin = Wire("cin")
    BY <1>1, <1>2, <1>6, <2>1, OneCall, FieldsOf
  <2>3. IsLeaf(Bit(k.a, i)) /\ IsLeaf(Bit(k.b, i))
    BY <2>2, BitIs DEF IsLeaf, IsInput, InputPrefixes
  <2>. QED
    BY <1>2, <1>3, <1>4, <1>5, <2>2, <2>3, LeafNames DEF Firm
<1>7. CASE option.op = "absmin"
  <2>1. Calls(option) = AbsMinCalls /\ Done + 1 \in 1 .. 12 /\ k = AbsMinCalls[Done + 1]
    BY <1>1, <1>2, <1>7, AbsMinAt DEF Calls
  <2>2. Done + 1 \in {5, 7, 8, 9, 10}
    <3>1. /\ AbsMinCalls[1].op = "ports" /\ AbsMinCalls[2].op = "extend" /\ AbsMinCalls[3].op = "zero"
          /\ AbsMinCalls[4].op = "shift" /\ AbsMinCalls[6].op = "shift"
          /\ AbsMinCalls[11].op = "select" /\ AbsMinCalls[12].op = "mux"
      BY AbsMinAt, FieldsOf
    <3>2. k.op \in {"add", "sub"}
      BY <1>2
    <3>. QED
      BY <2>1, <3>1, <3>2
  <2>3. k.bits = Width
    BY <2>1, <2>2, AbsMinAt, FieldsOf
  <2>4. i \in 0 .. (Width - 1)
    BY <1>2, <2>3
  <2>5. k.op = "add" => k.cin = Wire("ZERO")
    BY <2>1, <2>2, AbsMinAt, FieldsOf
  <2>6. k.op = "add" => Firm(circuit, k.cin)
    BY <1>3, <1>4, <2>5, LeafNames DEF Firm
  <2>7. Firm(circuit, Bit(k.a, i)) /\ Firm(circuit, Bit(k.b, i))
    <3>1. CASE Done + 1 = 5
      <4>1. k.a = x /\ k.b = fourX
        BY <2>1, <3>1, AbsMinAt, FieldsOf
      <4>. QED
        BY <1>1, <1>7, <2>4, <3>1, <4>1, DatapathFirm
    <3>2. CASE Done + 1 = 7
      <4>1. k.a = y /\ k.b = twoY
        BY <2>1, <3>2, AbsMinAt, FieldsOf
      <4>. QED
        BY <1>1, <1>7, <2>4, <3>2, <4>1, DatapathFirm
    <3>3. CASE Done + 1 = 8
      <4>1. k.a = zeros /\ k.b = fiveX
        BY <2>1, <3>3, AbsMinAt, FieldsOf
      <4>. QED
        BY <1>1, <1>7, <2>4, <3>3, <4>1, DatapathFirm
    <3>4. CASE Done + 1 = 9
      <4>1. k.a = zeros /\ k.b = threeY
        BY <2>1, <3>4, AbsMinAt, FieldsOf
      <4>. QED
        BY <1>1, <1>7, <2>4, <3>4, <4>1, DatapathFirm
    <3>5. CASE Done + 1 = 10
      <4>1. k.a = fiveX /\ k.b = threeY
        BY <2>1, <3>5, AbsMinAt, FieldsOf
      <4>. QED
        BY <1>1, <1>7, <2>4, <3>5, <4>1, DatapathFirm
    <3>. QED
      BY <2>2, <3>1, <3>2, <3>3, <3>4, <3>5
  <2>. QED
    BY <1>2, <1>5, <2>6, <2>7
<1>. QED
  BY <1>6, <1>7

(* What one iteration of a loop achieves. *)
BitMade ==
  /\ Grown(DOMAIN circuit, circuit, circuit', given)
  /\ \A n \in OutsAt(call, bit) : Gated(circuit', n)

LEMMA AddBitMade ==
  ASSUME FInv, AddBit
  PROVE  BitMade
<1>1. TInv /\ Sound(circuit, given) /\ Building /\ bit # NoBit /\ call.op = "add" /\ bit < End(call)
  BY DEF FInv, AddBit, At
<1>2. PICK k \in ProperCalls : k = call
  BY <1>1, CallIsProper DEF TInv
<1>3. bit \in 0 .. (k.bits - 1) /\ Created(k) \subseteq DOMAIN circuit /\ ChainCall(k) /\ k.bits \in Nat /\ MadeTo(circuit, k, bit)
  <2>1. bit \in First(k) .. End(k) /\ Created(k) \subseteq DOMAIN circuit
    BY <1>1, <1>2 DEF TInv
  <2>2. First(k) = 0 /\ End(k) = k.bits /\ k.bits \in Nat
    BY <1>1, <1>2, SizesAssumption DEF First, End, ProperCalls, Call
  <2>3. ChainCall(k)
    BY <1>1, <1>2, CallAt, ChainCalls
  <2>. QED
    BY <1>1, <1>2, <2>1, <2>2, <2>3 DEF FInv
<1>. DEFINE D == DOMAIN circuit
            a    == Bit(k.a, bit)
            b    == Bit(k.b, bit)
            ci   == CarryIn(k, bit)
            s    == Bit(k.out, bit)
            ab   == Bit(Suffixed(k.out, "_AB"), bit)
            axb  == Bit(Suffixed(k.out, "_AxorB"), bit)
            caxb == Bit(Suffixed(k.out, "_ciAxorB"), bit)
            co   == CarryOut(k, bit)
            zero == Wire("zero")
            c1 == SetGate(circuit, s, "xor3", <<a, b, ci>>)
            c2 == SetGate(c1, ab, "and2", <<a, b>>)
            c3 == SetGate(c2, axb, "xor3", <<zero, a, b>>)
            c4 == SetGate(c3, caxb, "and2", <<ci, axb>>)
            c5 == SetGate(c4, co, "or2", <<ab, caxb>>)
<1>4. circuit' = c5
  BY <1>2 DEF AddBit, Suffixed
<1>5. s \in D /\ ab \in D /\ axb \in D /\ caxb \in D /\ co \in D /\ ci \in D
  BY <1>1, <1>2, <1>3, AddCreates DEF Suffixed
<1>6. Firm(circuit, a) /\ Firm(circuit, b) /\ Firm(circuit, zero) /\ Firm(circuit, k.cin)
  BY <1>1, <1>2, <1>3, ChainOperands
<1>7. Firm(circuit, ci)
  <2>1. CASE bit = 0
    BY <1>6, <2>1 DEF CarryIn
  <2>2. CASE bit # 0
    <3>1. bit - 1 \in First(k) .. (bit - 1) /\ bit - 1 # k.bits - 1 /\ Less(k.bits) = k.bits - 1
      <4>1. k.bits \in 1 .. (UintMod - 1)
        BY <1>3, SizesAssumption DEF ProperCalls, Call
      <4>. QED
        BY <1>1, <1>2, <1>3, <2>2, <4>1, LessIsOneLess DEF First
    <3>2. CarryOut(k, bit - 1) = ci
      BY <2>2, <3>1 DEF CarryOut, CarryIn
    <3>3. ci \in OutsAt(k, bit - 1)
      BY <1>1, <1>2, <3>2 DEF OutsAt
    <3>4. Gated(circuit, ci)
      BY <1>3, <3>1, <3>3 DEF MadeTo
    <3>5. k.out \in ChainOuts /\ ci = Bit(Suffixed(k.out, "_c"), bit - 1)
      BY <1>3, <2>2 DEF ChainCall, CarryIn, Suffixed
    <3>6. ~IsSink(ci)
      BY <3>5, CanonInner DEF InnerWords
    <3>. QED
      BY <1>5, <3>4, <3>6 DEF Firm
  <2>. QED
    BY <2>1, <2>2
<1>8. /\ ~IsLeaf(s) /\ (~IsSink(s) => Canon(s) = Gate("xor3", <<a, b, ci>>))
      /\ ~IsLeaf(ab) /\ ~IsSink(ab) /\ Canon(ab) = Gate("and2", <<a, b>>)
      /\ ~IsLeaf(axb) /\ ~IsSink(axb) /\ Canon(axb) = Gate("xor3", <<zero, a, b>>)
      /\ ~IsLeaf(caxb) /\ ~IsSink(caxb) /\ Canon(caxb) = Gate("and2", <<ci, axb>>)
      /\ ~IsLeaf(co) /\ (~IsSink(co) => Canon(co) = Gate("or2", <<ab, caxb>>))
  BY <1>1, <1>2, <1>3, AdderCanon
<1>9. circuit \in CircuitOver(D) /\ Sound(circuit, given)
  BY <1>1 DEF TInv
<1>10. OutsAt(k, bit) = {s, ab, axb, caxb, co}
  BY <1>1, <1>2 DEF OutsAt
<1>. HIDE DEF D, a, b, ci, s, ab, axb, caxb, co, zero
<1>11. Grown(D, circuit, c1, given) /\ Gated(c1, s)
  BY <1>5, <1>6, <1>7, <1>8, <1>9, MakeGate3
<1>. HIDE DEF c1
<1>12. c1 \in CircuitOver(D) /\ Sound(c1, given) /\ Firm(c1, a) /\ Firm(c1, b) /\ Firm(c1, ci) /\ Firm(c1, zero)
  BY <1>6, <1>7, <1>9, <1>11, FirmStays DEF Grown
<1>13. Grown(D, c1, c2, given) /\ Gated(c2, ab)
  BY <1>5, <1>8, <1>12, MakeGate2
<1>. HIDE DEF c2
<1>14. /\ c2 \in CircuitOver(D) /\ Sound(c2, given) /\ Firm(c2, a) /\ Firm(c2, b) /\ Firm(c2, ci) /\ Firm(c2, zero)
       /\ Firm(c2, ab)
  BY <1>8, <1>12, <1>13, FirmStays DEF Grown, Firm, Gated
<1>15. Grown(D, c2, c3, given) /\ Gated(c3, axb)
  BY <1>5, <1>8, <1>14, MakeGate3
<1>. HIDE DEF c3
<1>16. /\ c3 \in CircuitOver(D) /\ Sound(c3, given) /\ Firm(c3, ci) /\ Firm(c3, ab) /\ Firm(c3, axb)
  BY <1>8, <1>14, <1>15, FirmStays DEF Grown, Firm, Gated
<1>17. Grown(D, c3, c4, given) /\ Gated(c4, caxb)
  BY <1>5, <1>8, <1>16, MakeGate2
<1>. HIDE DEF c4
<1>18. /\ c4 \in CircuitOver(D) /\ Sound(c4, given) /\ Firm(c4, ab) /\ Firm(c4, caxb)
  BY <1>8, <1>16, <1>17, FirmStays DEF Grown, Firm, Gated
<1>19. Grown(D, c4, c5, given) /\ Gated(c5, co)
  BY <1>5, <1>8, <1>18, MakeGate2
<1>. HIDE DEF c5
<1>20. Grown(D, circuit, c5, given)
  BY <1>9, <1>11, <1>12, <1>13, <1>14, <1>15, <1>16, <1>17, <1>18, <1>19, GrownAgain
<1>21. \A n \in {s, ab, axb, caxb, co} : Gated(c5, n)
  BY <1>5, <1>11, <1>13, <1>15, <1>17, <1>19 DEF Grown
<1>. QED
  BY <1>2, <1>4, <1>10, <1>20, <1>21 DEF BitMade, D

LEMMA SubBitMade ==
  ASSUME FInv, SubBit
  PROVE  BitMade
<1>1. TInv /\ Sound(circuit, given) /\ Building /\ bit # NoBit /\ call.op = "sub" /\ bit < End(call)
  BY DEF FInv, SubBit, At
<1>2. PICK k \in ProperCalls : k = call
  BY <1>1, CallIsProper DEF TInv
<1>3. bit \in 0 .. (k.bits - 1) /\ Created(k) \subseteq DOMAIN circuit /\ ChainCall(k) /\ k.bits \in Nat /\ MadeTo(circuit, k, bit)
  <2>1. bit \in First(k) .. End(k) /\ Created(k) \subseteq DOMAIN circuit
    BY <1>1, <1>2 DEF TInv
  <2>2. First(k) = 0 /\ End(k) = k.bits /\ k.bits \in Nat
    BY <1>1, <1>2, SizesAssumption DEF First, End, ProperCalls, Call
  <2>3. ChainCall(k)
    BY <1>1, <1>2, CallAt, ChainCalls
  <2>. QED
    BY <1>1, <1>2, <2>1, <2>2, <2>3 DEF FInv
<1>. DEFINE D == DOMAIN circuit
            a    == Bit(k.a, bit)
            b    == Bit(k.b, bit)
            bi   == BorrowIn(k, bit)
            s    == Bit(k.out, bit)
            axb  == Bit(Suffixed(k.out, "_AxorB"), bit)
            naxb == Bit(Suffixed(k.out, "_notAxorB"), bit)
            t1   == Bit(Suffixed(k.out, "_temp1"), bit)
            na   == Bit(Suffixed(k.out, "_notA"), bit)
            t2   == Bit(Suffixed(k.out, "_temp2"), bit)
            bo   == Bit(Suffixed(k.out, "_Bo"), bit)
            zero == Wire("zero")
            one  == Wire("one")
            c1 == SetGate(circuit, s, "xor3", <<a, b, bi>>)
            c2 == SetGate(c1, axb, "xor3", <<zero, a, b>>)
            c3 == SetGate(c2, naxb, "xor3", <<zero, axb, one>>)
            c4 == SetGate(c3, t1, "and2", <<bi, naxb>>)
            c5 == SetGate(c4, na, "xor3", <<zero, a, one>>)
            c6 == SetGate(c5, t2, "and2", <<na, b>>)
            c7 == SetGate(c6, bo, "or2", <<t1, t2>>)
<1>4. circuit' = c7
  BY <1>2 DEF SubBit, Suffixed
<1>5. s \in D /\ axb \in D /\ naxb \in D /\ t1 \in D /\ na \in D /\ t2 \in D /\ bo \in D /\ bi \in D
  BY <1>1, <1>2, <1>3, SubCreates DEF Suffixed
<1>6. Firm(circuit, a) /\ Firm(circuit, b) /\ Firm(circuit, zero) /\ Firm(circuit, one)
  BY <1>1, <1>2, <1>3, ChainOperands
<1>7. Firm(circuit, bi)
  <2>1. CASE bit = 0
    BY <1>6, <2>1 DEF BorrowIn
  <2>2. CASE bit # 0
    <3>1. bit - 1 \in First(k) .. (bit - 1)
      BY <1>1, <1>2, <1>3, <2>2 DEF First
    <3>2. bi = Bit(Suffixed(k.out, "_Bo"), bit - 1)
      BY <2>2 DEF BorrowIn, Suffixed
    <3>3. bi \in OutsAt(k, bit - 1)
      BY <1>1, <1>2, <3>2 DEF OutsAt
    <3>4. Gated(circuit, bi)
      BY <1>3, <3>1, <3>3 DEF MadeTo
    <3>5. k.out \in ChainOuts
      BY <1>3 DEF ChainCall
    <3>6. ~IsSink(bi)
      BY <3>2, <3>5, CanonInner DEF InnerWords
    <3>. QED
      BY <1>5, <3>4, <3>6 DEF Firm
  <2>. QED
    BY <2>1, <2>2
<1>8. /\ ~IsLeaf(s) /\ (~IsSink(s) => Canon(s) = Gate("xor3", <<a, b, bi>>))
      /\ ~IsLeaf(axb) /\ ~IsSink(axb) /\ Canon(axb) = Gate("xor3", <<zero, a, b>>)
      /\ ~IsLeaf(naxb) /\ ~IsSink(naxb) /\ Canon(naxb) = Gate("xor3", <<zero, axb, one>>)
      /\ ~IsLeaf(t1) /\ ~IsSink(t1) /\ Canon(t1) = Gate("and2", <<bi, naxb>>)
      /\ ~IsLeaf(na) /\ ~IsSink(na) /\ Canon(na) = Gate("xor3", <<zero, a, one>>)
      /\ ~IsLeaf(t2) /\ ~IsSink(t2) /\ Canon(t2) = Gate("and2", <<na, b>>)
      /\ ~IsLeaf(bo) /\ ~IsSink(bo) /\ Canon(bo) = Gate("or2", <<t1, t2>>)
  BY <1>1, <1>2, <1>3, SubtractorCanon
<1>9. circuit \in CircuitOver(D) /\ Sound(circuit, given)
  BY <1>1 DEF TInv
<1>10. OutsAt(k, bit) = {s, axb, naxb, t1, na, t2, bo}
  BY <1>1, <1>2 DEF OutsAt
<1>. HIDE DEF D, a, b, bi, s, axb, naxb, t1, na, t2, bo, zero, one
<1>11. Grown(D, circuit, c1, given) /\ Gated(c1, s)
  BY <1>5, <1>6, <1>7, <1>8, <1>9, MakeGate3
<1>. HIDE DEF c1
<1>12. /\ c1 \in CircuitOver(D) /\ Sound(c1, given)
       /\ Firm(c1, a) /\ Firm(c1, b) /\ Firm(c1, bi) /\ Firm(c1, zero) /\ Firm(c1, one)
  BY <1>6, <1>7, <1>9, <1>11, FirmStays DEF Grown
<1>13. Grown(D, c1, c2, given) /\ Gated(c2, axb)
  BY <1>5, <1>8, <1>12, MakeGate3
<1>. HIDE DEF c2
<1>14. /\ c2 \in CircuitOver(D) /\ Sound(c2, given)
       /\ Firm(c2, a) /\ Firm(c2, b) /\ Firm(c2, bi) /\ Firm(c2, zero) /\ Firm(c2, one) /\ Firm(c2, axb)
  BY <1>8, <1>12, <1>13, FirmStays DEF Grown, Firm, Gated
<1>15. Grown(D, c2, c3, given) /\ Gated(c3, naxb)
  BY <1>5, <1>8, <1>14, MakeGate3
<1>. HIDE DEF c3
<1>16. /\ c3 \in CircuitOver(D) /\ Sound(c3, given)
       /\ Firm(c3, a) /\ Firm(c3, b) /\ Firm(c3, bi) /\ Firm(c3, zero) /\ Firm(c3, one) /\ Firm(c3, naxb)
  BY <1>8, <1>14, <1>15, FirmStays DEF Grown, Firm, Gated
<1>17. Grown(D, c3, c4, given) /\ Gated(c4, t1)
  BY <1>5, <1>8, <1>16, MakeGate2
<1>. HIDE DEF c4
<1>18. /\ c4 \in CircuitOver(D) /\ Sound(c4, given)
       /\ Firm(c4, a) /\ Firm(c4, b) /\ Firm(c4, zero) /\ Firm(c4, one) /\ Firm(c4, t1)
  BY <1>8, <1>16, <1>17, FirmStays DEF Grown, Firm, Gated
<1>19. Grown(D, c4, c5, given) /\ Gated(c5, na)
  BY <1>5, <1>8, <1>18, MakeGate3
<1>. HIDE DEF c5
<1>20. /\ c5 \in CircuitOver(D) /\ Sound(c5, given) /\ Firm(c5, b) /\ Firm(c5, t1) /\ Firm(c5, na)
  BY <1>8, <1>18, <1>19, FirmStays DEF Grown, Firm, Gated
<1>21. Grown(D, c5, c6, given) /\ Gated(c6, t2)
  BY <1>5, <1>8, <1>20, MakeGate2
<1>. HIDE DEF c6
<1>22. /\ c6 \in CircuitOver(D) /\ Sound(c6, given) /\ Firm(c6, t1) /\ Firm(c6, t2)
  BY <1>8, <1>20, <1>21, FirmStays DEF Grown, Firm, Gated
<1>23. Grown(D, c6, c7, given) /\ Gated(c7, bo)
  BY <1>5, <1>8, <1>22, MakeGate2
<1>. HIDE DEF c7
<1>24. Grown(D, circuit, c4, given)
  BY <1>9, <1>11, <1>12, <1>13, <1>14, <1>15, <1>16, <1>17, GrownAgain
<1>25. Grown(D, circuit, c7, given)
  BY <1>9, <1>18, <1>19, <1>20, <1>21, <1>22, <1>23, <1>24, GrownAgain
<1>26. \A n \in {s, axb, naxb, t1, na, t2, bo} : Gated(c7, n)
  BY <1>5, <1>11, <1>13, <1>15, <1>17, <1>19, <1>21, <1>23 DEF Grown
<1>. QED
  BY <1>2, <1>4, <1>10, <1>25, <1>26 DEF BitMade, D

LEMMA ShiftBitMade ==
  ASSUME FInv, ShiftBit
  PROVE  BitMade
<1>1. /\ TInv /\ Sound(circuit, given) /\ Building /\ bit # NoBit /\ call.op = "shift" /\ bit < End(call)
  BY DEF FInv, ShiftBit, At
<1>2. /\ option \in Option /\ Done + 1 \in 1 .. Len(Calls(option)) /\ call = Calls(option)[Done + 1] /\ Done \in Nat
  BY <1>1, CallAt
<1>3. PICK k \in ProperCalls : k = call
  BY <1>1, CallIsProper DEF TInv
<1>4. /\ bit \in 0 .. (k.bits + k.shift - 1) /\ k.bits \in Nat /\ k.shift \in Nat /\ Created(k) \subseteq DOMAIN circuit
  <2>1. bit \in First(k) .. End(k) /\ Created(k) \subseteq DOMAIN circuit
    BY <1>1, <1>3 DEF TInv
  <2>2. First(k) = 0 /\ End(k) \in Nat /\ End(k) <= k.bits + k.shift /\ k.bits \in Nat /\ k.shift \in Nat
    BY <1>1, <1>3, ShiftLoop, UnsignedSum DEF ProperCalls, Call
  <2>. QED
    BY <1>1, <1>3, <2>1, <2>2
<1>5. PICK n : n = IF bit < k.shift THEN Wire("ZERO") ELSE Bit(k.a, bit - k.shift)
  OBVIOUS
<1>6. PICK out : out = Bit(k.out, bit)
  OBVIOUS
<1>7. circuit' = SetGate(circuit, out, "buf1", <<n>>)
  BY <1>3, <1>5, <1>6 DEF ShiftBit
<1>8. out \in DOMAIN circuit /\ n \in DOMAIN circuit
  <2>1. out \in DOMAIN circuit /\ Wire("ZERO") \in Created(k)
    BY <1>1, <1>3, <1>6 DEF ShiftBit, Created
  <2>2. ~(bit < k.shift) => bit - k.shift \in 0 .. (k.bits - 1)
    BY <1>4
  <2>3. \A i \in 0 .. (k.bits - 1) : Bit(k.a, i) \in Created(k)
    BY <1>1, <1>3, <1>4, BitsHave DEF Created
  <2>. QED
    BY <1>4, <1>5, <2>1, <2>2, <2>3
<1>9. IsLeaf(Wire("ZERO")) /\ ~IsSink(Wire("ZERO"))
  BY WireIs, BitIs, LeafNames DEF IsLeaf, IsZero, ZeroPrefixes
<1>10. Firm(circuit, n) /\ ~IsLeaf(out) /\ (~IsSink(out) => Canon(out) = Gate("buf1", <<n>>))
  <2>1. CASE option.op # "absmin"
    <3>1. Done + 1 = 1 /\ k.op = option.op
      BY <1>2, <1>3, <2>1, OneCall
    <3>2. k.a = <<"orig">> /\ k.out = <<"out">>
      BY <1>1, <1>2, <1>3, <2>1, <3>1, OneCall, FieldsOf
    <3>3. IsLeaf(n)
      BY <1>5, <1>9, <3>2, BitIs DEF IsLeaf, IsInput, InputPrefixes
    <3>4. out[1] \in SinkPrefixes
      BY <1>6, <3>2, BitIs DEF SinkPrefixes
    <3>. QED
      BY <1>8, <3>3, <3>4, LeafNames, SinkNames DEF Firm
  <2>2. ASSUME option.op = "absmin", NEW p \in {x, y}, NEW q \in {fourX, twoY}, k.a = p, k.out = q, k.bits = Width, Done >= 2,
               Base(q, bit) = Moved(p, bit - k.shift)
        PROVE  Firm(circuit, n) /\ ~IsLeaf(out) /\ (~IsSink(out) => Canon(out) = Gate("buf1", <<n>>))
    <3>1. Firm(circuit, n)
      <4>1. CASE bit < k.shift
        BY <1>5, <1>8, <1>9, <4>1 DEF Firm
      <4>2. CASE ~(bit < k.shift)
        <5>1. bit - k.shift \in 0 .. (Width - 1)
          BY <1>4, <2>2, <4>2
        <5>2. Firm(circuit, Bit(x, bit - k.shift)) /\ Firm(circuit, Bit(y, bit - k.shift))
          BY <1>1, <2>2, <5>1, DatapathFirm
        <5>. QED
          BY <1>5, <2>2, <4>2, <5>2
      <4>. QED
        BY <4>1, <4>2
    <3>2. bit - k.shift < 0 <=> bit < k.shift
      BY <1>4
    <3>3. Moved(p, bit - k.shift) = Gate("buf1", <<n>>)
      BY <1>5, <2>2, <3>2 DEF Moved
    <3>4. q \in BasePrefixes /\ q \notin {x, y}
      BY <2>2, BasesApart DEF BasePrefixes
    <3>. QED
      BY <1>6, <2>2, <3>1, <3>3, <3>4, CanonBase
  <2>3. CASE option.op = "absmin"
    <3>1. Calls(option) = AbsMinCalls /\ Done + 1 \in 1 .. 12 /\ k = AbsMinCalls[Done + 1]
      BY <1>2, <1>3, <2>3, AbsMinAt DEF Calls
    <3>2. Done + 1 \in {4, 6}
      <4>1. /\ AbsMinCalls[1].op = "ports" /\ AbsMinCalls[2].op = "extend" /\ AbsMinCalls[3].op = "zero"
            /\ AbsMinCalls[5].op = "add" /\ AbsMinCalls[7].op = "add"
            /\ AbsMinCalls[8].op = "sub" /\ AbsMinCalls[9].op = "sub" /\ AbsMinCalls[10].op = "sub"
            /\ AbsMinCalls[11].op = "select" /\ AbsMinCalls[12].op = "mux"
        BY AbsMinAt, FieldsOf
      <4>2. k.op = "shift"
        BY <1>1, <1>3
      <4>. QED
        BY <3>1, <4>1, <4>2
    <3>3. CASE Done + 1 = 4
      <4>1. k.a = x /\ k.out = fourX /\ k.bits = Width /\ k.shift = 2
        BY <3>1, <3>3, AbsMinAt, FieldsOf
      <4>2. Base(fourX, bit) = Moved(x, bit - k.shift)
        BY <4>1, BasesApart DEF Base
      <4>. QED
        BY <1>2, <2>2, <2>3, <3>3, <4>1, <4>2
    <3>4. CASE Done + 1 = 6
      <4>1. k.a = y /\ k.out = twoY /\ k.bits = Width /\ k.shift = 1
        BY <3>1, <3>4, AbsMinAt, FieldsOf
      <4>2. Base(twoY, bit) = Moved(y, bit - k.shift)
        BY <4>1, BasesApart DEF Base
      <4>. QED
        BY <1>2, <2>2, <2>3, <3>4, <4>1, <4>2
    <3>. QED
      BY <3>2, <3>3, <3>4
  <2>. QED
    BY <2>1, <2>3
<1>11. circuit \in CircuitOver(DOMAIN circuit)
  BY <1>1 DEF TInv
<1>12. Grown(DOMAIN circuit, circuit, circuit', given) /\ Gated(circuit', out)
  BY <1>1, <1>7, <1>8, <1>10, <1>11, MakeGate1
<1>13. OutsAt(k, bit) = {out}
  BY <1>1, <1>3, <1>6 DEF OutsAt
<1>. QED
  BY <1>3, <1>12, <1>13 DEF BitMade

(* The bits that x and y are extended with are no inputs. *)
LEMMA ExtensionNames ==
  ASSUME NEW p \in {x, y}, NEW i \in Nat
  PROVE  /\ i >= InBits => ~IsLeaf(Bit(p, i)) /\ ~IsSink(Bit(p, i)) /\ Canon(Bit(p, i)) = Gate("buf1", <<Bit(p, InBits - 1)>>)
         /\ i < InBits  => IsLeaf(Bit(p, i)) /\ ~IsSink(Bit(p, i))
<1>1. \A v, w : <<v>> = <<w>> => v = w
  OBVIOUS
<1>2. p \notin ZeroPrefixes \cup {<<"one">>} \cup InputPrefixes
  BY <1>1 DEF ZeroPrefixes, InputPrefixes, x, y
<1>3. p \in BasePrefixes
  BY DEF BasePrefixes
<1>4. Base(p, i) = Gate("buf1", <<Bit(p, InBits - 1)>>)
  BY BasesApart DEF Base
<1>5. InBits \in Nat
  BY SizesAssumption
<1>. QED
  BY <1>2, <1>3, <1>4, <1>5, BitIs, CanonBase DEF IsLeaf, IsZero, IsOne, IsInput

LEMMA ExtendBitMade ==
  ASSUME FInv, ExtendBit
  PROVE  BitMade
<1>1. /\ TInv /\ Sound(circuit, given) /\ Building /\ bit # NoBit /\ call.op = "extend" /\ bit < End(call)
  BY DEF FInv, ExtendBit, At
<1>2. Calls(option) = AbsMinCalls /\ Done = 1
  BY <1>1, OnlyAbsMin
<1>3. InBits \in Nat \ {0} /\ Width \in Nat /\ InBits - 1 \in 0 .. (Width - 1) /\ InBits - 1 \in Nat
  BY SizesAssumption DEF Width
<1>4. bit \in InBits .. (Width - 1)
  <2>1. bit \in First(call) .. End(call)
    BY <1>1 DEF TInv
  <2>. QED
    BY <1>1, <1>3, <2>1 DEF First, End
<1>5. Created(AbsMinCalls[1]) \subseteq DOMAIN circuit
  BY <1>1, <1>2, EarlierThere
<1>. DEFINE D  == DOMAIN circuit
            xb == Bit(x, bit)
            yb == Bit(y, bit)
            xs == Bit(x, InBits - 1)
            ys == Bit(y, InBits - 1)
            c1 == SetGate(circuit, xb, "buf1", <<xs>>)
            c2 == SetGate(c1, yb, "buf1", <<ys>>)
<1>6. circuit' = c2
  BY DEF ExtendBit
<1>7. xb \in D /\ yb \in D /\ xs \in D /\ ys \in D
  <2>1. bit \in 0 .. (Width - 1)
    BY <1>3, <1>4
  <2>. QED
    BY <1>3, <1>5, <2>1, AbsMinCreates
<1>8. /\ ~IsLeaf(xb) /\ Canon(xb) = Gate("buf1", <<xs>>)
      /\ ~IsLeaf(yb) /\ Canon(yb) = Gate("buf1", <<ys>>)
      /\ IsLeaf(xs) /\ ~IsSink(xs) /\ IsLeaf(ys) /\ ~IsSink(ys)
  <2>1. bit \in Nat /\ bit >= InBits /\ InBits - 1 < InBits
    BY <1>3, <1>4
  <2>. QED
    BY <1>3, <2>1, ExtensionNames
<1>9. Firm(circuit, xs) /\ Firm(circuit, ys)
  BY <1>7, <1>8 DEF Firm
<1>10. circuit \in CircuitOver(D)
  BY <1>1 DEF TInv
<1>11. OutsAt(call, bit) = {xb, yb}
  BY <1>1 DEF OutsAt
<1>. HIDE DEF D, xb, yb, xs, ys
<1>12. Grown(D, circuit, c1, given) /\ Gated(c1, xb)
  BY <1>1, <1>7, <1>8, <1>9, <1>10, MakeGate1
<1>. HIDE DEF c1
<1>13. c1 \in CircuitOver(D) /\ Sound(c1, given) /\ Firm(c1, ys)
  BY <1>9, <1>10, <1>12, FirmStays DEF Grown
<1>14. Grown(D, c1, c2, given) /\ Gated(c2, yb)
  BY <1>7, <1>8, <1>13, MakeGate1
<1>. HIDE DEF c2
<1>15. Grown(D, circuit, c2, given) /\ Gated(c2, xb)
  BY <1>7, <1>10, <1>12, <1>13, <1>14, GrownAgain DEF Grown
<1>. QED
  BY <1>6, <1>11, <1>14, <1>15 DEF BitMade, D

LEMMA SelectMade ==
  ASSUME FInv, Select
  PROVE  BitMade
<1>1. /\ TInv /\ Sound(circuit, given) /\ Building /\ bit # NoBit /\ call.op = "select" /\ bit < End(call)
  BY DEF FInv, Select, At
<1>2. /\ Calls(option) = AbsMinCalls /\ option.op = "absmin" /\ Done = 10
      /\ Created(call) \subseteq DOMAIN circuit
  BY <1>1, OnlyAbsMin DEF TInv
<1>3. Width - 1 \in 0 .. (Width - 1)
  BY SizesAssumption DEF Width
<1>. DEFINE D  == DOMAIN circuit
            s1 == Wire("sel1")
            s2 == Wire("sel2")
            xs == Bit(fiveX, Width - 1)
            ys == Bit(threeY, Width - 1)
            ds == Bit(diff, Width - 1)
            c1 == SetGate(circuit, s1, "or2", <<xs, ys>>)
            c2 == SetGate(c1, s2, "buf1", <<ds>>)
<1>4. circuit' = c2
  BY DEF Select, SignOfEither
<1>5. s1 \in D /\ s2 \in D
  BY <1>1, <1>2 DEF Created
<1>6. Firm(circuit, xs) /\ Firm(circuit, ys) /\ Firm(circuit, ds)
  BY <1>1, <1>2, <1>3, DatapathFirm
<1>7. /\ ~IsLeaf(s1) /\ Canon(s1) = Gate("or2", <<xs, ys>>)
      /\ ~IsLeaf(s2) /\ Canon(s2) = Gate("buf1", <<ds>>)
  <2>1. <<"sel1">> \in BasePrefixes /\ <<"sel2">> \in BasePrefixes
    BY DEF BasePrefixes
  <2>2. <<"sel1">> \notin {x, y} /\ <<"sel2">> \notin {x, y}
    BY BasesApart
  <2>3. Base(<<"sel1">>, NoBit) = Gate("or2", <<xs, ys>>) /\ Base(<<"sel2">>, NoBit) = Gate("buf1", <<ds>>)
    BY BasesApart DEF Base
  <2>. QED
    BY <2>1, <2>2, <2>3, CanonBase, WireIs
<1>8. circuit \in CircuitOver(D)
  BY <1>1 DEF TInv
<1>9. OutsAt(call, bit) = {s1, s2}
  BY <1>1 DEF OutsAt
<1>. HIDE DEF D, s1, s2, xs, ys, ds
<1>10. Grown(D, circuit, c1, given) /\ Gated(c1, s1)
  BY <1>1, <1>5, <1>6, <1>7, <1>8, MakeGate2
<1>. HIDE DEF c1
<1>11. c1 \in CircuitOver(D) /\ Sound(c1, given) /\ Firm(c1, ds)
  BY <1>6, <1>8, <1>10, FirmStays DEF Grown
<1>12. Grown(D, c1, c2, given) /\ Gated(c2, s2)
  BY <1>5, <1>7, <1>11, MakeGate1
<1>. HIDE DEF c2
<1>13. Grown(D, circuit, c2, given) /\ Gated(c2, s1)
  BY <1>5, <1>8, <1>10, <1>11, <1>12, GrownAgain DEF Grown
<1>. QED
  BY <1>4, <1>9, <1>12, <1>13 DEF BitMade, D

LEMMA MuxBitMade ==
  ASSUME FInv, MuxBit
  PROVE  BitMade
<1>1. /\ TInv /\ Sound(circuit, given) /\ Building /\ bit # NoBit /\ call.op = "mux" /\ bit < End(call)
  BY DEF FInv, MuxBit, At
<1>2. Calls(option) = AbsMinCalls /\ option.op = "absmin" /\ Done = 11
  BY <1>1, OnlyAbsMin
<1>3. bit \in 0 .. (Width - 1)
  <2>1. bit \in First(call) .. End(call) /\ Width \in Nat
    BY <1>1, SizesAssumption DEF TInv, Width
  <2>. QED
    BY <1>1, <2>1 DEF First, End
<1>4. /\ Firm(circuit, Wire("sel1")) /\ Firm(circuit, Wire("sel2"))
      /\ Firm(circuit, Bit(fiveX, bit)) /\ Firm(circuit, Bit(threeY, bit))
      /\ Firm(circuit, Bit(minus5X, bit)) /\ Firm(circuit, Bit(minus3Y, bit))
  BY <1>1, <1>2, <1>3, DatapathFirm
<1>5. PICK a, b, c, d, e, f : /\ a = Wire("sel1") /\ b = Wire("sel2") /\ c = Bit(minus5X, bit) /\ d = Bit(minus3Y, bit)
                              /\ e = Bit(fiveX, bit) /\ f = Bit(threeY, bit)
  OBVIOUS
<1>6. PICK ins : ins = <<a, b, c, d, e, f>>
  OBVIOUS
<1>7. a \in DOMAIN circuit /\ b \in DOMAIN circuit /\ c \in DOMAIN circuit /\ d \in DOMAIN circuit
      /\ e \in DOMAIN circuit /\ f \in DOMAIN circuit
  BY <1>4, <1>5 DEF Firm
<1>8. ins \in Seq(DOMAIN circuit) /\ Len(ins) = 6 /\ \A j \in DOMAIN ins : ins[j] \in {a, b, c, d, e, f}
  BY <1>6, <1>7
<1>9. \A j \in DOMAIN ins : Firm(circuit, ins[j])
  BY <1>4, <1>5, <1>8
<1>10. PICK out : out = Bit(z, bit)
  OBVIOUS
<1>11. circuit' = SetGate(circuit, out, "mux4", ins)
  BY <1>5, <1>6, <1>10 DEF MuxBit, Mux4
<1>12. IsSink(out) /\ ~IsLeaf(out)
  BY <1>10, BitIs, SinkNames DEF SinkPrefixes, z
<1>13. out \in DOMAIN circuit /\ circuit \in CircuitOver(DOMAIN circuit)
  <2>1. Created(AbsMinCalls[1]) \subseteq DOMAIN circuit
    BY <1>1, <1>2, EarlierThere
  <2>. QED
    BY <1>1, <1>3, <1>10, <2>1, AbsMinCreates DEF TInv
<1>14. "mux4" \in Gates /\ Arity["mux4"] = 6
  BY DEF Gates, Arity
<1>15. Grown(DOMAIN circuit, circuit, circuit', given) /\ Gated(circuit', out)
  BY <1>1, <1>8, <1>9, <1>11, <1>12, <1>13, <1>14, MakeGate
<1>16. OutsAt(call, bit) = {out}
  BY <1>1, <1>10 DEF OutsAt
<1>. QED
  BY <1>15, <1>16 DEF BitMade

----------------------------------------------------------------------------
(* Every step keeps the circuit sound *)

LEMMA BuildKeeps ==
  ASSUME FInv, Build
  PROVE  FInv'
<1>1. BitMade
  BY AddBitMade, SubBitMade, ShiftBitMade, ExtendBitMade, SelectMade, MuxBitMade DEF Build
<1>2. TInv /\ TInv'
  BY BuildTyped DEF FInv
<1>3. /\ Building /\ bit # NoBit
      /\ bit' = bit + 1 /\ UNCHANGED <<phase, left, option, todo, given, saved>>
  BY DEF Build, AddBit, SubBit, ShiftBit, ExtendBit, Select, MuxBit, At, Advance
<1>4. call' = call /\ Done' = Done /\ phase = "build"
  BY <1>3, SameCalls DEF Building
<1>5. PICK D : D = DOMAIN circuit
  OBVIOUS
<1>6. /\ circuit \in CircuitOver(D) /\ circuit' \in CircuitOver(D) /\ Sound(circuit', given)
      /\ \A m \in D : circuit'[m].type = circuit[m].type /\ (Gated(circuit, m) => Gated(circuit', m))
  BY <1>1, <1>2, <1>5 DEF BitMade, Grown, TInv
<1>7. DOMAIN circuit' = D
  BY <1>6 DEF CircuitOver
<1>8. \A m : Gated(circuit, m) => Gated(circuit', m)
  BY <1>5, <1>6 DEF Gated
<1>9. \A k, i : MadeTo(circuit, k, i) => MadeTo(circuit', k, i)
  BY <1>8 DEF MadeTo
<1>10. \A i \in 1 .. Done : Sized(Calls(option)[i]) /\ MadeTo(circuit', Calls(option)[i], End(Calls(option)[i]))
  BY <1>4, <1>9 DEF FInv
<1>11. Sized(call) /\ MadeTo(circuit', call, bit + 1)
  <2>1. Sized(call) /\ MadeTo(circuit', call, bit) /\ bit \in Nat
    BY <1>2, <1>3, <1>9 DEF FInv, TInv, GInv
  <2>2. First(call) \in Nat
    BY SizesAssumption DEF First
  <2>3. \A j \in First(call) .. ((bit + 1) - 1) : j \in First(call) .. (bit - 1) \/ j = bit
    BY <2>1, <2>2
  <2>. QED
    BY <1>1, <2>1, <2>3 DEF MadeTo, BitMade
<1>12. \A n \in D : Loose(circuit', n) => n \in CreatedFor(option)
  <2>1. \A n \in D : circuit'[n].gate = NoGate => circuit[n].gate = NoGate
    BY <1>5, <1>6, <1>7 DEF Gated
  <2>2. \A n \in D : Loose(circuit', n) => Loose(circuit, n)
    BY <1>6, <2>1 DEF Loose
  <2>. QED
    BY <1>5, <2>2 DEF FInv
<1>13. ~saved
  BY <1>4 DEF FInv
<1>14. Calls(option') = Calls(option) /\ CreatedFor(option') = CreatedFor(option)
  BY <1>3
<1>15. IsFiniteSet(DOMAIN circuit') /\ Cardinality(DOMAIN circuit') <= Memory
  BY <1>5, <1>7 DEF FInv
<1>. QED
  BY <1>2, <1>3, <1>4, <1>6, <1>7, <1>10, <1>11, <1>12, <1>13, <1>14, <1>15 DEF FInv

LEMMA EndCallKeeps ==
  ASSUME FInv, EndCall
  PROVE  FInv'
<1>1. /\ Building /\ bit # NoBit /\ bit >= End(call) /\ todo' = Tail(todo) /\ bit' = NoBit
      /\ UNCHANGED <<phase, left, option, circuit, tally, given, saved>>
  BY DEF EndCall
<1>2. TInv /\ TInv' /\ Sized(call) /\ MadeTo(circuit, call, bit)
  BY <1>1, EndCallTyped DEF FInv
<1>3. /\ Done \in Nat /\ call = Calls(option)[Done + 1] /\ Done + 1 \in 1 .. Len(Calls(option))
      /\ option \in Option /\ todo \in Seq(ProperCalls) /\ todo # <<>> /\ call \in ProperCalls
  BY <1>1, <1>2, CallAt DEF TInv, GInv, Building
<1>4. Done' = Done + 1
  <2>1. Len(todo) \in Nat /\ Len(todo') = Len(todo) - 1 /\ Len(Calls(option)) \in Nat
    BY <1>1, <1>3
  <2>. QED
    BY <1>1, <1>3, <2>1 DEF Done
<1>5. MadeTo(circuit, call, End(call))
  <2>1. End(call) \in Nat /\ First(call) \in Nat /\ bit \in Nat
    BY <1>1, <1>2, <1>3, LoopBounds DEF TInv, GInv
  <2>2. First(call) .. (End(call) - 1) \subseteq First(call) .. (bit - 1)
    BY <1>1, <2>1
  <2>. QED
    BY <1>2, <2>2 DEF MadeTo
<1>6. \A i \in 1 .. (Done + 1) : Sized(Calls(option)[i]) /\ MadeTo(circuit, Calls(option)[i], End(Calls(option)[i]))
  <2>. SUFFICES ASSUME NEW i \in 1 .. (Done + 1)
                PROVE  Sized(Calls(option)[i]) /\ MadeTo(circuit, Calls(option)[i], End(Calls(option)[i]))
    OBVIOUS
  <2>1. CASE i = Done + 1
    BY <1>2, <1>3, <1>5, <2>1
  <2>2. CASE i # Done + 1
    <3>1. i \in 1 .. Done /\ phase = "build"
      BY <1>1, <1>3, <2>2 DEF Building
    <3>. QED
      BY <3>1 DEF FInv
  <2>. QED
    BY <2>1, <2>2
<1>7. Calls(option') = Calls(option) /\ CreatedFor(option') = CreatedFor(option)
  BY <1>1
<1>. QED
  BY <1>1, <1>2, <1>4, <1>6, <1>7 DEF FInv

(* Between two options nothing is loose, so the next may name what it likes. *)
LEMMA ReadOptionKeeps ==
  ASSUME FInv, NEW o \in Options, ReadOption(o)
  PROVE  FInv'
<1>1. /\ phase = "options" /\ circuit' = circuit /\ given' = given /\ bit' = bit
      /\ option' = o /\ phase' = "build" /\ todo' = Calls(o) /\ saved' = FALSE
  BY DEF ReadOption
<1>2. TInv /\ TInv' /\ bit = NoBit
  BY <1>1, TSteps DEF FInv, TInv, GInv, Building, Next
<1>3. Len(Calls(o)) \in Nat /\ Done' = Len(Calls(o)) - Len(Calls(o))
  BY <1>1, CallsProper DEF Done
<1>4. Done' = 0
  BY <1>3
<1>5. \A n \in DOMAIN circuit : ~Loose(circuit, n)
  BY <1>1 DEF FInv
<1>. QED
  BY <1>1, <1>2, <1>4, <1>5 DEF FInv

LEMMA StopKeeps ==
  ASSUME FInv, Exhaust \/ AssertFails \/ Finish \/ UNCHANGED vars
  PROVE  FInv'
<1>1. TInv /\ TInv'
  BY TSteps DEF FInv, Next
<1>2. UNCHANGED <<left, option, todo, circuit, tally, given, saved>>
  BY DEF Exhaust, AssertFails, Finish, vars, control
<1>3. CASE Exhaust \/ AssertFails
  <2>1. phase = "build" /\ phase' \in {"exhausted", "aborted"} /\ bit' = NoBit
    BY <1>3 DEF Exhaust, AssertFails, At, Building
  <2>2. ~saved
    BY <2>1 DEF FInv
  <2>3. CreatedFor(option') = CreatedFor(option)
    BY <1>2
  <2>. QED
    BY <1>1, <1>2, <2>1, <2>2, <2>3 DEF FInv
<1>4. CASE Finish
  <2>1. phase = "options" /\ phase' = "done" /\ bit' = bit
    BY <1>4 DEF Finish
  <2>2. bit = NoBit /\ \A n \in DOMAIN circuit : ~Loose(circuit, n)
    BY <1>1, <2>1 DEF FInv, TInv, GInv, Building
  <2>. QED
    BY <1>1, <1>2, <2>1, <2>2 DEF FInv
<1>5. CASE UNCHANGED vars
  <2>1. phase' = phase /\ bit' = bit
    BY <1>5 DEF vars, control
  <2>2. call' = call /\ Done' = Done /\ CreatedFor(option') = CreatedFor(option) /\ Calls(option') = Calls(option)
    BY <1>2, <2>1, SameCalls
  <2>. QED
    BY <1>1, <1>2, <2>1, <2>2 DEF FInv
<1>. QED
  BY <1>3, <1>4, <1>5

----------------------------------------------------------------------------
(* Every node an option creates is an input, a constant, or driven by it *)

LEMMA InBitsOf == \A p, n, m : m \in Bits(p, n) => \E i \in 0 .. (n - 1) : m = Bit(p, i)
  BY DEF Bits

Driven(k, n) == \E i \in First(k) .. (End(k) - 1) : n \in OutsAt(k, i)

LEMMA AdderCreated ==
  ASSUME NEW k \in ProperCalls, k.op = "add", k.bits # 0, NEW n \in Created(k)
  PROVE  n \in Bits(k.a, k.bits) \/ n \in Bits(k.b, k.bits) \/ n \in {k.cin, Wire("zero")} \/ Driven(k, n)
<1>1. k.bits \in 1 .. (UintMod - 1) /\ k.bits \in Nat
  BY SizesAssumption DEF ProperCalls, Call
<1>2. Less(k.bits) = k.bits - 1
  BY <1>1, LessIsOneLess
<1>. DEFINE wires == {k.out, k.out \o <<"_AB">>, k.out \o <<"_AxorB">>, k.out \o <<"_ciAxorB">>}
            all == UNION {Bits(p, k.bits) : p \in {k.a, k.b, k.out, k.out \o <<"_AB">>, k.out \o <<"_AxorB">>, k.out \o <<"_ciAxorB">>}}
            carries == Bits(k.out \o <<"_c">>, k.bits - 1)
<1>3. Created(k) = all \cup carries \cup {k.cin, k.cout, Wire("zero")}
  BY <1>2 DEF Created
<1>4. First(k) = 0 /\ End(k) = k.bits
  BY DEF First, End
<1>5. \A i : OutsAt(k, i) = {Bit(k.out, i), Bit(k.out \o <<"_AB">>, i), Bit(k.out \o <<"_AxorB">>, i),
                             Bit(k.out \o <<"_ciAxorB">>, i), CarryOut(k, i)}
  BY DEF OutsAt, Suffixed
<1>6. \A p \in wires : n \in Bits(p, k.bits) => Driven(k, n)
  <2>. SUFFICES ASSUME NEW p \in wires, n \in Bits(p, k.bits) PROVE Driven(k, n)
    OBVIOUS
  <2>1. PICK i \in 0 .. (k.bits - 1) : n = Bit(p, i)
    BY InBitsOf
  <2>. QED
    BY <1>4, <1>5, <2>1 DEF Driven
<1>7. n \in all => n \in Bits(k.a, k.bits) \/ n \in Bits(k.b, k.bits) \/ \E p \in wires : n \in Bits(p, k.bits)
  OBVIOUS
<1>8. n \in carries => Driven(k, n)
  <2>. SUFFICES ASSUME n \in carries PROVE Driven(k, n)
    OBVIOUS
  <2>1. PICK i \in 0 .. ((k.bits - 1) - 1) : n = Bit(k.out \o <<"_c">>, i)
    BY InBitsOf
  <2>2. i # Less(k.bits) /\ i \in 0 .. (k.bits - 1)
    BY <1>1, <1>2
  <2>3. n = CarryOut(k, i)
    BY <2>1, <2>2 DEF CarryOut
  <2>. QED
    BY <1>4, <1>5, <2>2, <2>3 DEF Driven
<1>9. Driven(k, k.cout)
  <2>1. CarryOut(k, k.bits - 1) = k.cout /\ k.bits - 1 \in 0 .. (k.bits - 1)
    BY <1>1, <1>2 DEF CarryOut
  <2>. QED
    BY <1>4, <1>5, <2>1 DEF Driven
<1>. HIDE DEF all, carries
<1>10. n \in all \/ n \in carries \/ n \in {k.cin, k.cout, Wire("zero")}
  BY <1>3
<1>. QED
  BY <1>6, <1>7, <1>8, <1>9, <1>10

LEMMA SubtractorCreated ==
  ASSUME NEW k \in ProperCalls, k.op = "sub", NEW n \in Created(k)
  PROVE  n \in Bits(k.a, k.bits) \/ n \in Bits(k.b, k.bits) \/ n \in {Wire("zero"), Wire("one")} \/ Driven(k, n)
<1>. DEFINE wires == {k.out, k.out \o <<"_Bo">>, k.out \o <<"_AxorB">>, k.out \o <<"_notAxorB">>,
                      k.out \o <<"_temp1">>, k.out \o <<"_notA">>, k.out \o <<"_temp2">>}
            all == UNION {Bits(p, k.bits) : p \in {k.a, k.b, k.out, k.out \o <<"_Bo">>, k.out \o <<"_AxorB">>,
                            k.out \o <<"_notAxorB">>, k.out \o <<"_temp1">>, k.out \o <<"_notA">>, k.out \o <<"_temp2">>}}
<1>1. Created(k) = all \cup {Wire("zero"), Wire("one")}
  BY DEF Created
<1>2. First(k) = 0 /\ End(k) = k.bits
  BY DEF First, End
<1>3. \A i : OutsAt(k, i) = {Bit(k.out, i), Bit(k.out \o <<"_AxorB">>, i), Bit(k.out \o <<"_notAxorB">>, i),
                             Bit(k.out \o <<"_temp1">>, i), Bit(k.out \o <<"_notA">>, i),
                             Bit(k.out \o <<"_temp2">>, i), Bit(k.out \o <<"_Bo">>, i)}
  BY DEF OutsAt, Suffixed
<1>4. \A p \in wires : n \in Bits(p, k.bits) => Driven(k, n)
  <2>. SUFFICES ASSUME NEW p \in wires, n \in Bits(p, k.bits) PROVE Driven(k, n)
    OBVIOUS
  <2>1. PICK i \in 0 .. (k.bits - 1) : n = Bit(p, i)
    BY InBitsOf
  <2>. QED
    BY <1>2, <1>3, <2>1 DEF Driven
<1>5. n \in all => n \in Bits(k.a, k.bits) \/ n \in Bits(k.b, k.bits) \/ \E p \in wires : n \in Bits(p, k.bits)
  OBVIOUS
<1>. HIDE DEF all
<1>. QED
  BY <1>1, <1>4, <1>5

LEMMA ShifterCreated ==
  ASSUME NEW k \in ProperCalls, k.op = "shift", NEW n \in Created(k)
  PROVE  n \in Bits(k.a, k.bits) \/ n = Wire("ZERO") \/ Driven(k, n)
<1>1. Created(k) = Bits(k.a, k.bits) \cup Bits(k.out, Outputs(k)) \cup {Wire("ZERO")}
  BY DEF Created
<1>2. n \in Bits(k.out, Outputs(k)) => Driven(k, n)
  <2>. SUFFICES ASSUME n \in Bits(k.out, Outputs(k)) PROVE Driven(k, n)
    OBVIOUS
  <2>1. PICK i \in 0 .. (Outputs(k) - 1) : n = Bit(k.out, i)
    BY InBitsOf
  <2>2. First(k) = 0 /\ End(k) \in Nat /\ Outputs(k) <= End(k) /\ Outputs(k) \in Nat
    BY ShiftLoop, UnsignedSum DEF ProperCalls, Call
  <2>3. i \in First(k) .. (End(k) - 1) /\ n \in OutsAt(k, i)
    BY <2>1, <2>2 DEF OutsAt
  <2>. QED
    BY <2>3 DEF Driven
<1>. QED
  BY <1>1, <1>2

Accounted(o, n) == n \in PortsOf(o).ins \/ \E i \in 1 .. Len(Calls(o)) : Driven(Calls(o)[i], n)
Kind(o, i, n) ==
  \/ IsZero(n) /\ ~IsOne(n) /\ (n \in ZeroNodes(Calls(o)[i]) \/ \E j \in 1 .. (i - 1) : n \in Created(Calls(o)[j]))
  \/ IsOne(n) /\ ~IsZero(n) /\ n \in OneNodes(Calls(o)[i])
  \/ ~IsZero(n) /\ ~IsOne(n) /\ Accounted(o, n)

LEMMA PlainNames ==
  ASSUME NEW p \in {<<"a">>, <<"b">>, <<"orig">>, <<"cin">>, z} \cup BasePrefixes, NEW i
  PROVE  ~IsZero(Bit(p, i)) /\ ~IsOne(Bit(p, i))
<1>1. \A v, w : <<v>> = <<w>> => v = w
  OBVIOUS
<1>2. \A t, v, w : <<t, v>> # <<w>>
  OBVIOUS
<1>3. p \notin ZeroPrefixes \cup {<<"one">>}
  BY <1>1, <1>2 DEF ZeroPrefixes, BasePrefixes, x, y, z, fiveX, threeY, minus5X, minus3Y, diff, fourX, twoY
<1>. QED
  BY <1>3, BitIs DEF IsZero, IsOne

LEMMA ConstantNames ==
  /\ IsZero(Wire("zero")) /\ ~IsOne(Wire("zero"))
  /\ IsZero(Wire("ZERO")) /\ ~IsOne(Wire("ZERO"))
  /\ IsOne(Wire("one")) /\ ~IsZero(Wire("one"))
  /\ \A i : IsZero(Bit(zeros, i)) /\ ~IsOne(Bit(zeros, i))
<1>1. \A v, w : <<v>> = <<w>> => v = w
  OBVIOUS
<1>2. <<"one">> \notin ZeroPrefixes
  BY <1>1 DEF ZeroPrefixes
<1>. QED
  BY <1>2, WireIs, BitIs DEF IsZero, IsOne, ZeroPrefixes, zeros

LEMMA DrivenPlain ==
  ASSUME NEW o \in Option, NEW i \in 1 .. Len(Calls(o)), Calls(o)[i].op \in {"add", "sub", "shift"},
         NEW n, Driven(Calls(o)[i], n)
  PROVE  ~IsZero(n) /\ ~IsOne(n)
<1>1. PICK k : k = Calls(o)[i]
  OBVIOUS
<1>2. PICK b : n \in OutsAt(k, b)
  BY <1>1 DEF Driven
<1>3. CASE k.op = "add"
  <2>1. ChainCall(k)
    BY <1>1, <1>3, ChainCalls
  <2>2. n \in {Bit(k.out, b), Bit(Suffixed(k.out, "_AB"), b), Bit(Suffixed(k.out, "_AxorB"), b),
               Bit(Suffixed(k.out, "_ciAxorB"), b), CarryOut(k, b)}
    BY <1>2, <1>3 DEF OutsAt
  <2>3. ~IsLeaf(n)
    BY <1>3, <2>1, <2>2, AdderCanon
  <2>. QED
    BY <2>3 DEF IsLeaf
<1>4. CASE k.op = "sub"
  <2>1. ChainCall(k)
    BY <1>1, <1>4, ChainCalls
  <2>2. n \in {Bit(k.out, b), Bit(Suffixed(k.out, "_AxorB"), b), Bit(Suffixed(k.out, "_notAxorB"), b),
               Bit(Suffixed(k.out, "_temp1"), b), Bit(Suffixed(k.out, "_notA"), b),
               Bit(Suffixed(k.out, "_temp2"), b), Bit(Suffixed(k.out, "_Bo"), b)}
    BY <1>2, <1>4 DEF OutsAt
  <2>3. ~IsLeaf(n)
    BY <1>4, <2>1, <2>2, SubtractorCanon
  <2>. QED
    BY <2>3 DEF IsLeaf
<1>5. CASE k.op = "shift"
  <2>1. n = Bit(k.out, b)
    BY <1>2, <1>5 DEF OutsAt
  <2>2. CASE o.op # "absmin"
    <3>1. k.op = o.op /\ i = 1
      BY <1>1, <2>2, OneCall
    <3>2. k.out = <<"out">>
      BY <1>1, <1>5, <2>2, <3>1, OneCall, FieldsOf
    <3>3. n[1] \in SinkPrefixes
      BY <2>1, <3>2, BitIs DEF SinkPrefixes
    <3>. QED
      BY <3>3, SinkNames DEF IsLeaf
  <2>3. CASE o.op = "absmin"
    <3>1. i \in 1 .. 12 /\ k = AbsMinCalls[i]
      BY <1>1, <2>3, AbsMinAt DEF Calls
    <3>2. /\ AbsMinCalls[1].op = "ports" /\ AbsMinCalls[2].op = "extend" /\ AbsMinCalls[3].op = "zero"
          /\ AbsMinCalls[5].op = "add" /\ AbsMinCalls[7].op = "add"
          /\ AbsMinCalls[8].op = "sub" /\ AbsMinCalls[9].op = "sub" /\ AbsMinCalls[10].op = "sub"
          /\ AbsMinCalls[11].op = "select" /\ AbsMinCalls[12].op = "mux"
          /\ AbsMinCalls[4].out = fourX /\ AbsMinCalls[6].out = twoY
      BY AbsMinAt, FieldsOf
    <3>3. k.out \in {fourX, twoY}
      BY <1>5, <3>1, <3>2
    <3>. QED
      BY <2>1, <3>3, PlainNames DEF BasePrefixes
  <2>. QED
    BY <2>2, <2>3
<1>. QED
  BY <1>1, <1>3, <1>4, <1>5

(* The words of abs(min(5x,3y)) that its calls share. *)
LEMMA DatapathAccounted ==
  ASSUME NEW o \in Option, o.op = "absmin", NEW i \in 0 .. (Width - 1),
         NEW p \in {x, y, z, fourX, twoY, fiveX, threeY}
  PROVE  Accounted(o, Bit(p, i))
<1>1. Calls(o) = AbsMinCalls /\ Len(AbsMinCalls) = 12
  BY AbsMinAt DEF Calls
<1>2. InBits \in Nat /\ Width \in Nat
  BY SizesAssumption DEF Width
<1>3. \A j \in 1 .. 12 : Driven(AbsMinCalls[j], Bit(p, i)) => Accounted(o, Bit(p, i))
  BY <1>1 DEF Accounted
<1>4. CASE p \in {x, y}
  <2>1. i < InBits => Bit(p, i) \in PortsOf(o).ins
    <3>1. PortsOf(o).ins = Bits(x, InBits) \cup Bits(y, InBits)
      BY DEF PortsOf
    <3>2. i < InBits => Bit(p, i) \in Bits(p, InBits)
      BY <1>2, BitsHave
    <3>. QED
      BY <1>4, <3>1, <3>2
  <2>2. i >= InBits => Driven(AbsMinCalls[2], Bit(p, i))
    <3>1. AbsMinCalls[2].op = "extend"
      BY AbsMinAt, FieldsOf
    <3>2. First(AbsMinCalls[2]) = InBits /\ End(AbsMinCalls[2]) = Width /\ OutsAt(AbsMinCalls[2], i) = {Bit(x, i), Bit(y, i)}
      BY <3>1 DEF First, End, OutsAt
    <3>. QED
      BY <1>2, <1>4, <3>2 DEF Driven
  <2>. QED
    BY <1>2, <1>3, <2>1, <2>2 DEF Accounted
<1>5. CASE p = z
  <2>1. AbsMinCalls[12].op = "mux"
    BY AbsMinAt, FieldsOf
  <2>2. First(AbsMinCalls[12]) = 0 /\ End(AbsMinCalls[12]) = Width /\ OutsAt(AbsMinCalls[12], i) = {Bit(z, i)}
    BY <2>1 DEF First, End, OutsAt
  <2>3. Driven(AbsMinCalls[12], Bit(z, i))
    BY <2>2 DEF Driven
  <2>. QED
    BY <1>3, <1>5, <2>3
<1>6. ASSUME NEW j \in {4, 5, 6, 7}, AbsMinCalls[j].op \in {"add", "shift"}, AbsMinCalls[j].bits = Width,
             AbsMinCalls[j].shift \in 0 .. 2, AbsMinCalls[j].out = p
      PROVE  Accounted(o, Bit(p, i))
  <2>1. PICK k : k = AbsMinCalls[j]
    OBVIOUS
  <2>2. First(k) = 0 /\ i \in 0 .. (End(k) - 1)
    BY <1>2, <1>6, <2>1, WordLoop
  <2>3. Bit(p, i) \in OutsAt(k, i)
    BY <1>6, <2>1 DEF OutsAt
  <2>. QED
    BY <1>3, <2>1, <2>2, <2>3 DEF Driven
<1>7. /\ AbsMinCalls[4].op = "shift" /\ AbsMinCalls[4].bits = Width /\ AbsMinCalls[4].shift = 2 /\ AbsMinCalls[4].out = fourX
      /\ AbsMinCalls[5].op = "add" /\ AbsMinCalls[5].bits = Width /\ AbsMinCalls[5].shift = 0 /\ AbsMinCalls[5].out = fiveX
      /\ AbsMinCalls[6].op = "shift" /\ AbsMinCalls[6].bits = Width /\ AbsMinCalls[6].shift = 1 /\ AbsMinCalls[6].out = twoY
      /\ AbsMinCalls[7].op = "add" /\ AbsMinCalls[7].bits = Width /\ AbsMinCalls[7].shift = 0 /\ AbsMinCalls[7].out = threeY
  BY AbsMinAt, FieldsOf
<1>8. CASE p = fourX
  BY <1>6, <1>7, <1>8
<1>9. CASE p = twoY
  BY <1>6, <1>7, <1>9
<1>10. CASE p = fiveX
  BY <1>6, <1>7, <1>10
<1>11. CASE p = threeY
  BY <1>6, <1>7, <1>11
<1>. QED
  BY <1>4, <1>5, <1>8, <1>9, <1>10, <1>11

LEMMA DrivenKind ==
  ASSUME NEW o \in Option, NEW i \in 1 .. Len(Calls(o)), Calls(o)[i].op \in {"add", "sub", "shift"},
         NEW n, Driven(Calls(o)[i], n)
  PROVE  Kind(o, i, n)
<1>1. ~IsZero(n) /\ ~IsOne(n)
  BY DrivenPlain
<1>2. Accounted(o, n)
  BY DEF Accounted
<1>. QED
  BY <1>1, <1>2 DEF Kind

LEMMA OptionKinds ==
  ASSUME NEW o \in Options, o.op # "absmin", NEW i \in 1 .. Len(Calls(o)), Sized(Calls(o)[i]), NEW n \in Created(Calls(o)[i])
  PROVE  Kind(o, i, n)
<1>0. o \in Option
  BY OptionsAssumption
<1>1. i = 1 /\ 1 \in 1 .. Len(Calls(o))
  BY <1>0, OneCall
<1>2. PICK k \in ProperCalls : k = Calls(o)[1]
  <2>1. PICK t : t = Calls(o)
    OBVIOUS
  <2>2. t \in Seq(ProperCalls)
    BY <2>1, CallsProper
  <2>. QED
    BY <1>1, <2>1, <2>2
<1>3. k.op = o.op /\ k.op \in {"add", "sub", "shift"}
  BY <1>0, <1>2, OneCall DEF Option
<1>4. Driven(k, n) => Kind(o, 1, n)
  BY <1>0, <1>1, <1>2, <1>3, DrivenKind
<1>5. ASSUME NEW p \in {<<"a">>, <<"b">>, <<"orig">>}, NEW m, n \in Bits(p, m), Bits(p, m) \subseteq PortsOf(o).ins
      PROVE  Kind(o, 1, n)
  <2>1. PICK j : n = Bit(p, j)
    BY <1>5, InBitsOf
  <2>2. ~IsZero(n) /\ ~IsOne(n)
    BY <2>1, PlainNames
  <2>. QED
    BY <1>5, <2>2 DEF Kind, Accounted
<1>6. CASE k.op = "add"
  <2>1. k.a = <<"a">> /\ k.b = <<"b">> /\ k.cin = Wire("cin") /\ k.bits = o.bits
    <3>1. k = CallOf("add", <<"a">>, <<"b">>, <<"s">>, Wire("cin"), Wire("cout"), o.bits, 0)
      BY <1>0, <1>2, <1>3, <1>6, OneCall
    <3>. QED
      BY <3>1, FieldsOf
  <2>2. PortsOf(o).ins = Bits(<<"a">>, o.bits) \cup Bits(<<"b">>, o.bits) \cup {Wire("cin")}
    BY <1>3, <1>6 DEF PortsOf
  <2>3. k.bits # 0 /\ n \in Created(k)
    BY <1>1, <1>2, <1>6 DEF Sized
  <2>4. n \in Bits(k.a, k.bits) \/ n \in Bits(k.b, k.bits) \/ n \in {k.cin, Wire("zero")} \/ Driven(k, n)
    BY <1>6, <2>3, AdderCreated
  <2>5. Kind(o, 1, Wire("cin"))
    <3>1. ~IsZero(Wire("cin")) /\ ~IsOne(Wire("cin"))
      BY PlainNames, WireIs
    <3>. QED
      BY <2>2, <3>1 DEF Kind, Accounted
  <2>6. Kind(o, 1, Wire("zero"))
    <3>1. Wire("zero") \in ZeroNodes(k)
      BY <1>6 DEF ZeroNodes
    <3>. QED
      BY <1>2, <3>1, ConstantNames DEF Kind
  <2>. QED
    BY <1>1, <1>4, <1>5, <2>1, <2>2, <2>4, <2>5, <2>6
<1>7. CASE k.op = "sub"
  <2>1. k.a = <<"a">> /\ k.b = <<"b">> /\ k.bits = o.bits
    <3>1. k = CallOf("sub", <<"a">>, <<"b">>, <<"s">>, Wire("cin"), Wire("cout"), o.bits, 0)
      BY <1>0, <1>2, <1>3, <1>7, OneCall
    <3>. QED
      BY <3>1, FieldsOf
  <2>2. PortsOf(o).ins = Bits(<<"a">>, o.bits) \cup Bits(<<"b">>, o.bits)
    BY <1>3, <1>7 DEF PortsOf
  <2>3. n \in Bits(k.a, k.bits) \/ n \in Bits(k.b, k.bits) \/ n \in {Wire("zero"), Wire("one")} \/ Driven(k, n)
    BY <1>1, <1>2, <1>7, SubtractorCreated
  <2>4. Kind(o, 1, Wire("zero")) /\ Kind(o, 1, Wire("one"))
    <3>1. Wire("zero") \in ZeroNodes(k) /\ Wire("one") \in OneNodes(k)
      BY <1>7 DEF ZeroNodes, OneNodes
    <3>. QED
      BY <1>2, <3>1, ConstantNames DEF Kind
  <2>. QED
    BY <1>1, <1>4, <1>5, <2>1, <2>2, <2>3, <2>4
<1>8. CASE k.op = "shift"
  <2>1. k.a = <<"orig">> /\ k.bits = o.bits
    <3>1. k = CallOf("shift", <<"orig">>, <<>>, <<"out">>, Wire("cin"), Wire("cout"), o.bits, o.shift)
      BY <1>0, <1>2, <1>3, <1>8, OneCall
    <3>. QED
      BY <3>1, FieldsOf
  <2>2. PortsOf(o).ins = Bits(<<"orig">>, o.bits)
    BY <1>3, <1>8 DEF PortsOf
  <2>3. n \in Bits(k.a, k.bits) \/ n = Wire("ZERO") \/ Driven(k, n)
    BY <1>1, <1>2, <1>8, ShifterCreated
  <2>4. Kind(o, 1, Wire("ZERO"))
    <3>1. Wire("ZERO") \in ZeroNodes(k)
      BY <1>8 DEF ZeroNodes
    <3>. QED
      BY <1>2, <3>1, ConstantNames DEF Kind
  <2>. QED
    BY <1>1, <1>4, <1>5, <2>1, <2>2, <2>3, <2>4
<1>. QED
  BY <1>3, <1>6, <1>7, <1>8

LEMMA DatapathKinds ==
  ASSUME NEW o \in Options, o.op = "absmin", NEW i \in 1 .. Len(Calls(o)), Sized(Calls(o)[i]), NEW n \in Created(Calls(o)[i])
  PROVE  Kind(o, i, n)
<1>0. o \in Option
  BY OptionsAssumption
<1>1. Calls(o) = AbsMinCalls /\ Len(AbsMinCalls) = 12 /\ i \in 1 .. 12
  BY AbsMinAt DEF Calls
<1>2. PICK k \in ProperCalls : k = AbsMinCalls[i]
  <2>1. PICK t : t = AbsMinCalls
    OBVIOUS
  <2>2. t \in Seq(ProperCalls) /\ Len(t) = 12
    BY <2>1, AbsMinProper, AbsMinAt
  <2>3. t[i] \in ProperCalls
    BY <1>1, <2>2, ElementOfSeq
  <2>. QED
    BY <2>1, <2>3
<1>3. n \in Created(k) /\ Sized(k)
  BY <1>1, <1>2
<1>4. k.op \in {"add", "sub", "shift"} /\ Driven(k, n) => Kind(o, i, n)
  BY <1>0, <1>1, <1>2, DrivenKind
<1>5. ASSUME NEW p \in {x, y, z, fourX, twoY, fiveX, threeY}, n \in Bits(p, Width)
      PROVE  Kind(o, i, n)
  <2>1. PICK j \in 0 .. (Width - 1) : n = Bit(p, j)
    BY <1>5, InBitsOf
  <2>2. ~IsZero(n) /\ ~IsOne(n)
    BY <2>1, PlainNames DEF BasePrefixes
  <2>3. Accounted(o, n)
    BY <1>0, <2>1, DatapathAccounted
  <2>. QED
    BY <2>2, <2>3 DEF Kind
<1>6. \A m \in Bits(zeros, Width) : IsZero(m) /\ ~IsOne(m)
  <2>. SUFFICES ASSUME NEW m \in Bits(zeros, Width) PROVE IsZero(m) /\ ~IsOne(m)
    OBVIOUS
  <2>1. PICK j : m = Bit(zeros, j)
    BY InBitsOf
  <2>. QED
    BY <2>1, ConstantNames
<1>7. AbsMinCalls[1].op = "ports" /\ AbsMinCalls[3].op = "zero"
  BY AbsMinAt, FieldsOf
<1>8. CASE k.op = "ports"
  <2>1. Created(k) = UNION {Bits(p, Width) : p \in {x, y, z, zeros}} /\ ZeroNodes(k) = Bits(zeros, Width)
    BY <1>8 DEF Created, ZeroNodes
  <2>2. n \in Bits(zeros, Width) => Kind(o, i, n)
    BY <1>1, <1>2, <1>6, <2>1 DEF Kind
  <2>. QED
    BY <1>3, <1>5, <2>1, <2>2
<1>9. CASE k.op = "zero"
  <2>1. n = Wire("ZERO") /\ Wire("ZERO") \in ZeroNodes(k)
    BY <1>3, <1>9 DEF Created, ZeroNodes
  <2>. QED
    BY <1>1, <1>2, <2>1, ConstantNames DEF Kind
<1>10. CASE k.op = "select"
  <2>1. n \in {Wire("sel1"), Wire("sel2")}
    BY <1>3, <1>10 DEF Created
  <2>2. AbsMinCalls[11].op = "select"
    BY AbsMinAt, FieldsOf
  <2>3. First(AbsMinCalls[11]) = 0 /\ End(AbsMinCalls[11]) = 1 /\ OutsAt(AbsMinCalls[11], 0) = {Wire("sel1"), Wire("sel2")}
    BY <2>2 DEF First, End, OutsAt
  <2>4. 0 \in 0 .. (1 - 1)
    OBVIOUS
  <2>5. Driven(AbsMinCalls[11], n)
    BY <2>1, <2>3, <2>4 DEF Driven
  <2>6. Accounted(o, n)
    BY <1>1, <2>5 DEF Accounted
  <2>7. ~IsZero(n) /\ ~IsOne(n)
    BY <2>1, PlainNames, WireIs DEF BasePrefixes
  <2>. QED
    BY <2>6, <2>7 DEF Kind
<1>11. CASE k.op \in {"extend", "mux"}
  BY <1>3, <1>11 DEF Created
<1>12. CASE k.op = "shift"
  <2>1. n \in Bits(k.a, k.bits) \/ n = Wire("ZERO") \/ Driven(k, n)
    BY <1>3, <1>12, ShifterCreated
  <2>2. k.a \in {x, y} /\ k.bits = Width
    <3>1. /\ AbsMinCalls[1].op = "ports" /\ AbsMinCalls[2].op = "extend" /\ AbsMinCalls[3].op = "zero"
          /\ AbsMinCalls[5].op = "add" /\ AbsMinCalls[7].op = "add"
          /\ AbsMinCalls[8].op = "sub" /\ AbsMinCalls[9].op = "sub" /\ AbsMinCalls[10].op = "sub"
          /\ AbsMinCalls[11].op = "select" /\ AbsMinCalls[12].op = "mux"
          /\ AbsMinCalls[4].a = x /\ AbsMinCalls[6].a = y
          /\ AbsMinCalls[4].bits = Width /\ AbsMinCalls[6].bits = Width
      BY AbsMinAt, FieldsOf
    <3>. QED
      BY <1>1, <1>2, <1>12, <3>1
  <2>3. Kind(o, i, Wire("ZERO"))
    <3>1. Wire("ZERO") \in ZeroNodes(k)
      BY <1>12 DEF ZeroNodes
    <3>. QED
      BY <1>1, <1>2, <3>1, ConstantNames DEF Kind
  <2>. QED
    BY <1>4, <1>5, <1>12, <2>1, <2>2, <2>3
<1>13. CASE k.op \in {"add", "sub"}
  <2>1. i \in {5, 7, 8, 9, 10} /\ (k.op = "add" => i \in {5, 7})
    <3>1. /\ AbsMinCalls[1].op = "ports" /\ AbsMinCalls[2].op = "extend" /\ AbsMinCalls[3].op = "zero"
          /\ AbsMinCalls[4].op = "shift" /\ AbsMinCalls[6].op = "shift"
          /\ AbsMinCalls[8].op = "sub" /\ AbsMinCalls[9].op = "sub" /\ AbsMinCalls[10].op = "sub"
          /\ AbsMinCalls[11].op = "select" /\ AbsMinCalls[12].op = "mux"
      BY AbsMinAt, FieldsOf
    <3>. QED
      BY <1>1, <1>2, <1>13, <3>1
  <2>2. /\ k.a \in {x, y, zeros, fiveX} /\ k.b \in {fourX, twoY, fiveX, threeY} /\ k.bits = Width
        /\ k.op = "add" => k.cin = Wire("ZERO")
    <3>1. /\ AbsMinCalls[5].a = x /\ AbsMinCalls[5].b = fourX /\ AbsMinCalls[5].cin = Wire("ZERO")
          /\ AbsMinCalls[7].a = y /\ AbsMinCalls[7].b = twoY /\ AbsMinCalls[7].cin = Wire("ZERO")
          /\ AbsMinCalls[8].a = zeros /\ AbsMinCalls[8].b = fiveX
          /\ AbsMinCalls[9].a = zeros /\ AbsMinCalls[9].b = threeY
          /\ AbsMinCalls[10].a = fiveX /\ AbsMinCalls[10].b = threeY
          /\ \A j \in {5, 7, 8, 9, 10} : AbsMinCalls[j].bits = Width
      BY AbsMinAt, FieldsOf
    <3>. QED
      BY <1>2, <2>1, <3>1
  <2>3. n \in Bits(zeros, Width) => Kind(o, i, n)
    <3>1. Bits(zeros, Width) \subseteq Created(AbsMinCalls[1])
      BY <1>7 DEF Created
    <3>2. 1 \in 1 .. (i - 1)
      BY <2>1
    <3>. QED
      BY <1>1, <1>6, <3>1, <3>2 DEF Kind
  <2>4. k.op = "add" => Kind(o, i, Wire("ZERO"))
    <3>1. Wire("ZERO") \in Created(AbsMinCalls[3])
      BY <1>7 DEF Created
    <3>2. k.op = "add" => 3 \in 1 .. (i - 1)
      BY <2>1
    <3>. QED
      BY <1>1, <3>1, <3>2, ConstantNames DEF Kind
  <2>5. Kind(o, i, Wire("zero"))
    <3>1. Wire("zero") \in ZeroNodes(k)
      BY <1>13 DEF ZeroNodes
    <3>. QED
      BY <1>1, <1>2, <3>1, ConstantNames DEF Kind
  <2>6. k.op = "sub" => Kind(o, i, Wire("one"))
    <3>1. k.op = "sub" => Wire("one") \in OneNodes(k)
      BY DEF OneNodes
    <3>. QED
      BY <1>1, <1>2, <3>1, ConstantNames DEF Kind
  <2>7. n \in Bits(k.a, Width) \/ n \in Bits(k.b, Width) => Kind(o, i, n)
    BY <1>5, <2>2, <2>3
  <2>8. CASE k.op = "add"
    <3>1. n \in Bits(k.a, k.bits) \/ n \in Bits(k.b, k.bits) \/ n \in {k.cin, Wire("zero")} \/ Driven(k, n)
      BY <1>3, <2>8, AdderCreated DEF Sized
    <3>. QED
      BY <1>4, <2>2, <2>4, <2>5, <2>7, <2>8, <3>1
  <2>9. CASE k.op = "sub"
    <3>1. n \in Bits(k.a, k.bits) \/ n \in Bits(k.b, k.bits) \/ n \in {Wire("zero"), Wire("one")} \/ Driven(k, n)
      BY <1>3, <2>9, SubtractorCreated
    <3>. QED
      BY <1>4, <2>2, <2>5, <2>6, <2>7, <2>9, <3>1
  <2>. QED
    BY <1>13, <2>8, <2>9
<1>. QED
  BY <1>8, <1>9, <1>10, <1>11, <1>12, <1>13 DEF ProperCalls, Call, Ops

LEMMA CreatedKinds ==
  ASSUME NEW o \in Options, NEW i \in 1 .. Len(Calls(o)), Sized(Calls(o)[i]), NEW n \in Created(Calls(o)[i])
  PROVE  Kind(o, i, n)
  BY OptionKinds, DatapathKinds

----------------------------------------------------------------------------
(* Creating nodes *)

LEMMA BitsFinite ==
  ASSUME NEW p, NEW n \in Int
  PROVE  IsFiniteSet(Bits(p, n))
<1>. DEFINE S == 0 .. (n - 1)
            f == [i \in S |-> Bit(p, i)]
<1>1. IsFiniteSet(S)
  BY FS_Interval
<1>2. f \in Surjection(S, Bits(p, n))
  BY DEF Surjection, Bits
<1>. QED
  BY <1>1, <1>2, FS_Surjection

LEMMA BitsMany ==
  ASSUME NEW p, NEW n \in Nat, NEW S, IsFiniteSet(S), Bits(p, n) \subseteq S
  PROVE  n <= Cardinality(S)
<1>. DEFINE T == 0 .. (n - 1)
            f == [i \in T |-> Bit(p, i)]
<1>1. Cardinality(T) = n
  BY FS_Interval
<1>2. f \in Injection(T, S)
  <2>1. \A i \in T : f[i] \in S
    BY DEF Bits
  <2>2. \A i, j \in T : f[i] = f[j] => i = j
    BY BitIs
  <2>. QED
    BY <2>1, <2>2 DEF Injection, IsInjective
<1>3. Cardinality(T) <= Cardinality(S)
  BY <1>2, FS_Injection
<1>. QED
  BY <1>1, <1>3

LEMMA PairFinite == \A v, w : IsFiniteSet({v, w})
<1>. SUFFICES ASSUME NEW v, NEW w PROVE IsFiniteSet({v, w})
  OBVIOUS
<1>1. PICK S, T : S = {v} /\ T = {w}
  OBVIOUS
<1>2. IsFiniteSet(S) /\ IsFiniteSet(T)
  BY <1>1, FS_Singleton
<1>3. IsFiniteSet(S \cup T)
  BY <1>2, FS_Union
<1>4. S \cup T = {v, w}
  BY <1>1
<1>. QED
  BY <1>3, <1>4

LEMMA FourFinite ==
  ASSUME NEW A, NEW B, NEW C, NEW D, IsFiniteSet(A), IsFiniteSet(B), IsFiniteSet(C), IsFiniteSet(D)
  PROVE  IsFiniteSet((A \cup B) \cup (C \cup D))
<1>1. IsFiniteSet(A \cup B)
  BY FS_Union
<1>2. IsFiniteSet(C \cup D)
  BY FS_Union
<1>. QED
  BY <1>1, <1>2, FS_Union

LEMMA CreatedFinite ==
  ASSUME NEW k \in ProperCalls
  PROVE  IsFiniteSet(Created(k))
<1>1. k.bits \in Int /\ Outputs(k) \in Int /\ Less(k.bits) \in Int /\ Width \in Int
  BY SizesAssumption, UnsignedSum DEF ProperCalls, Call, Less, Width
<1>2. \A p : IsFiniteSet(Bits(p, k.bits)) /\ IsFiniteSet(Bits(p, Outputs(k)))
             /\ IsFiniteSet(Bits(p, Less(k.bits))) /\ IsFiniteSet(Bits(p, Width))
  BY <1>1, BitsFinite
<1>3. CASE k.op = "add"
  <2>1. PICK A, B, C, D, E, F, G, H, I :
          /\ A = Bits(k.a, k.bits) /\ B = Bits(k.b, k.bits) /\ C = Bits(k.out, k.bits)
          /\ D = Bits(k.out \o <<"_AB">>, k.bits) /\ E = Bits(k.out \o <<"_AxorB">>, k.bits)
          /\ F = Bits(k.out \o <<"_ciAxorB">>, k.bits) /\ G = Bits(k.out \o <<"_c">>, Less(k.bits))
          /\ H = {k.cin, k.cout} /\ I = {Wire("zero")}
    OBVIOUS
  <2>2. /\ IsFiniteSet(A) /\ IsFiniteSet(B) /\ IsFiniteSet(C) /\ IsFiniteSet(D) /\ IsFiniteSet(E)
        /\ IsFiniteSet(F) /\ IsFiniteSet(G) /\ IsFiniteSet(H) /\ IsFiniteSet(I)
    BY <1>2, <2>1, PairFinite, FS_Singleton
  <2>3. PICK P : P = (A \cup B) \cup (C \cup D)
    OBVIOUS
  <2>4. PICK Q : Q = (E \cup F) \cup (G \cup H)
    OBVIOUS
  <2>5. IsFiniteSet(P) /\ IsFiniteSet(Q)
    BY <2>2, <2>3, <2>4, FourFinite
  <2>6. IsFiniteSet((P \cup Q) \cup (I \cup I))
    BY <2>2, <2>5, FourFinite
  <2>7. Created(k) = (P \cup Q) \cup (I \cup I)
    BY <1>3, <2>1, <2>3, <2>4 DEF Created
  <2>. QED
    BY <2>6, <2>7
<1>4. CASE k.op = "sub"
  <2>1. PICK A, B, C, D, E, F, G, H, I, J :
          /\ A = Bits(k.a, k.bits) /\ B = Bits(k.b, k.bits) /\ C = Bits(k.out, k.bits)
          /\ D = Bits(k.out \o <<"_Bo">>, k.bits) /\ E = Bits(k.out \o <<"_AxorB">>, k.bits)
          /\ F = Bits(k.out \o <<"_notAxorB">>, k.bits) /\ G = Bits(k.out \o <<"_temp1">>, k.bits)
          /\ H = Bits(k.out \o <<"_notA">>, k.bits) /\ I = Bits(k.out \o <<"_temp2">>, k.bits)
          /\ J = {Wire("zero"), Wire("one")}
    OBVIOUS
  <2>2. /\ IsFiniteSet(A) /\ IsFiniteSet(B) /\ IsFiniteSet(C) /\ IsFiniteSet(D) /\ IsFiniteSet(E)
        /\ IsFiniteSet(F) /\ IsFiniteSet(G) /\ IsFiniteSet(H) /\ IsFiniteSet(I) /\ IsFiniteSet(J)
    BY <1>2, <2>1, PairFinite
  <2>3. PICK P : P = (A \cup B) \cup (C \cup D)
    OBVIOUS
  <2>4. PICK Q : Q = (E \cup F) \cup (G \cup H)
    OBVIOUS
  <2>5. IsFiniteSet(P) /\ IsFiniteSet(Q)
    BY <2>2, <2>3, <2>4, FourFinite
  <2>6. IsFiniteSet((P \cup Q) \cup (I \cup J))
    BY <2>2, <2>5, FourFinite
  <2>7. Created(k) = (P \cup Q) \cup (I \cup J)
    BY <1>4, <2>1, <2>3, <2>4 DEF Created
  <2>. QED
    BY <2>6, <2>7
<1>5. CASE k.op = "shift"
  <2>1. PICK A, B, C : A = Bits(k.a, k.bits) /\ B = Bits(k.out, Outputs(k)) /\ C = {Wire("ZERO")}
    OBVIOUS
  <2>2. IsFiniteSet((A \cup B) \cup (C \cup C))
    BY <1>2, <2>1, FS_Singleton, FourFinite
  <2>3. Created(k) = (A \cup B) \cup (C \cup C)
    BY <1>5, <2>1 DEF Created
  <2>. QED
    BY <2>2, <2>3
<1>6. CASE k.op = "ports"
  <2>1. PICK A, B, C, D : A = Bits(x, Width) /\ B = Bits(y, Width) /\ C = Bits(z, Width) /\ D = Bits(zeros, Width)
    OBVIOUS
  <2>2. IsFiniteSet((A \cup B) \cup (C \cup D))
    BY <1>2, <2>1, FourFinite
  <2>3. Created(k) = (A \cup B) \cup (C \cup D)
    BY <1>6, <2>1 DEF Created
  <2>. QED
    BY <2>2, <2>3
<1>7. CASE k.op \in {"zero", "select", "extend", "mux"}
  <2>1. Created(k) = {Wire("ZERO")} \/ Created(k) = {Wire("sel1"), Wire("sel2")} \/ Created(k) = {}
    BY <1>7 DEF Created
  <2>2. IsFiniteSet({Wire("ZERO")})
    BY FS_Singleton
  <2>3. IsFiniteSet({Wire("sel1"), Wire("sel2")})
    BY PairFinite
  <2>. QED
    BY <2>1, <2>2, <2>3, FS_EmptySet
<1>. QED
  BY <1>3, <1>4, <1>5, <1>6, <1>7 DEF ProperCalls, Call, Ops

(* No adder of no bits gets its nodes: it asks for UINT_MAX carries. *)
LEMMA CreateAllSized ==
  ASSUME FInv, CreateAll
  PROVE  Sized(call)
<1>1. PICK k \in ProperCalls : k = call
  BY CallIsProper DEF CreateAll, FInv, TInv
<1>2. Cardinality(DOMAIN circuit \cup Created(k)) <= Memory
  BY <1>1 DEF CreateAll
<1>3. SUFFICES ASSUME k.op = "add", k.bits = 0 PROVE FALSE
  BY <1>1 DEF Sized
<1>4. Less(0) = UintMod - 1 /\ UintMod - 1 \in Nat
  <2>1. \A m \in Nat : m > 0 => (0 - 1) % m = m - 1
    OBVIOUS
  <2>2. UintMod \in Nat /\ UintMod > 0
    BY SizesAssumption
  <2>. QED
    BY <2>1, <2>2 DEF Less
<1>5. Bits(k.out \o <<"_c">>, UintMod - 1) \subseteq DOMAIN circuit \cup Created(k)
  BY <1>3, <1>4 DEF Created
<1>6. IsFiniteSet(DOMAIN circuit \cup Created(k))
  BY CreatedFinite, FS_Union DEF FInv
<1>7. UintMod - 1 <= Cardinality(DOMAIN circuit \cup Created(k)) /\ Cardinality(DOMAIN circuit \cup Created(k)) \in Nat
  BY <1>4, <1>5, <1>6, BitsMany, FS_CardinalityType
<1>. QED
  BY <1>2, <1>7, SizesAssumption, MemoryAssumption

LEMMA ConstantCreated ==
  ASSUME NEW k
  PROVE  /\ \A n \in ZeroNodes(k) : IsZero(n) /\ ~IsOne(n) /\ n \in Created(k)
         /\ \A n \in OneNodes(k)  : IsOne(n) /\ ~IsZero(n) /\ n \in Created(k)
<1>1. CASE k.op \in {"add", "sub"}
  <2>1. ZeroNodes(k) = {Wire("zero")} /\ OneNodes(k) = IF k.op = "sub" THEN {Wire("one")} ELSE {}
    BY <1>1 DEF ZeroNodes, OneNodes
  <2>2. Wire("zero") \in Created(k) /\ (k.op = "sub" => Wire("one") \in Created(k))
    BY <1>1 DEF Created
  <2>. QED
    BY <2>1, <2>2, ConstantNames
<1>2. CASE k.op \in {"shift", "zero"}
  <2>1. ZeroNodes(k) = {Wire("ZERO")} /\ OneNodes(k) = {} /\ Wire("ZERO") \in Created(k)
    BY <1>2 DEF ZeroNodes, OneNodes, Created
  <2>. QED
    BY <2>1, ConstantNames
<1>3. CASE k.op = "ports"
  <2>1. ZeroNodes(k) = Bits(zeros, Width) /\ OneNodes(k) = {} /\ Bits(zeros, Width) \subseteq Created(k)
    BY <1>3 DEF ZeroNodes, OneNodes, Created
  <2>2. \A n \in Bits(zeros, Width) : IsZero(n) /\ ~IsOne(n)
    BY InBitsOf, ConstantNames
  <2>. QED
    BY <2>1, <2>2
<1>4. CASE k.op \notin {"add", "sub", "shift", "zero", "ports"}
  BY <1>4 DEF ZeroNodes, OneNodes
<1>. QED
  BY <1>1, <1>2, <1>3, <1>4

LEMMA ConstantsNoInputs ==
  ASSUME NEW n, IsZero(n) \/ IsOne(n)
  PROVE  ~IsInput(n)
<1>1. \A v, w : <<v>> = <<w>> => v = w
  OBVIOUS
<1>2. \A p \in ZeroPrefixes \cup {<<"one">>} : p \notin InputPrefixes \cup {x, y}
  BY <1>1 DEF ZeroPrefixes, InputPrefixes, x, y
<1>. QED
  BY <1>2 DEF IsZero, IsOne, IsInput

(* What was there stays as it was: a constant that is created again has the    *)
(* value it had.                                                             *)
LEMMA CreateAllKeeps ==
  ASSUME FInv, CreateAll
  PROVE  FInv'
<1>1. PICK k \in ProperCalls : k = call
  BY CallIsProper DEF CreateAll, FInv, TInv
<1>2. Building /\ bit = NoBit /\ UNCHANGED <<phase, left, option, todo, given, saved>> /\ bit' = First(k) /\ phase = "build"
  BY <1>1 DEF CreateAll, Building
<1>3. TInv /\ TInv' /\ Sized(k)
  BY <1>1, CreateAllTyped, CreateAllSized DEF FInv
<1>4. /\ option \in Options /\ Done \in Nat /\ Done + 1 \in 1 .. Len(Calls(option)) /\ k = Calls(option)[Done + 1]
  BY <1>1, <1>2, <1>3, CallAt DEF TInv, Progress
<1>5. PICK D, E : D = DOMAIN circuit /\ E = DOMAIN circuit \cup Created(k)
  OBVIOUS
<1>6. PICK c : /\ c = CreateNodes(circuit, Created(k), given)
               /\ circuit' = [n \in DOMAIN c |->
                      IF n \in ZeroNodes(k) THEN ConstantNode("zero")
                      ELSE IF n \in OneNodes(k) THEN ConstantNode("one")
                      ELSE c[n]]
  BY <1>1 DEF CreateAll
<1>7. /\ DOMAIN c = E /\ DOMAIN circuit' = E
      /\ \A n \in D : c[n] = circuit[n]
      /\ \A n \in E \ D : c[n] = NewNode(IF n \in DOMAIN given THEN given[n] ELSE 0)
  BY <1>5, <1>6 DEF CreateNodes
<1>8. /\ \A n \in ZeroNodes(k) : IsZero(n) /\ ~IsOne(n) /\ n \in E
      /\ \A n \in OneNodes(k)  : IsOne(n) /\ ~IsZero(n) /\ n \in E
  BY <1>5, ConstantCreated
<1>9. /\ ConstantNode("zero").type = "zero" /\ ConstantNode("zero").val = 0 /\ ConstantNode("zero").gate = NoGate
      /\ ConstantNode("one").type = "one" /\ ConstantNode("one").val = 1 /\ ConstantNode("one").gate = NoGate
      /\ \A v : NewNode(v).type = "internal" /\ NewNode(v).val = v /\ NewNode(v).gate = NoGate
  BY DEF ConstantNode, NewNode
<1>10. \A n \in ZeroNodes(k) : circuit'[n].type = "zero" /\ circuit'[n].val = 0 /\ circuit'[n].gate = NoGate
  BY <1>6, <1>7, <1>8, <1>9
<1>11. \A n \in OneNodes(k) : circuit'[n].type = "one" /\ circuit'[n].val = 1 /\ circuit'[n].gate = NoGate
  <2>1. \A n \in OneNodes(k) : n \notin ZeroNodes(k)
    BY <1>8
  <2>. QED
    BY <1>6, <1>7, <1>8, <1>9, <2>1
<1>12. \A n \in E : n \notin ZeroNodes(k) /\ n \notin OneNodes(k) => circuit'[n] = c[n]
  BY <1>6, <1>7
<1>13. \A n \in D : LeafSound(circuit, n, given) /\ (circuit[n].gate # NoGate => GateSound(circuit, n))
  BY <1>5 DEF FInv, Sound
<1>14. ASSUME NEW n \in D
       PROVE  /\ circuit'[n].type = circuit[n].type /\ circuit'[n].val = circuit[n].val /\ circuit'[n].gate = circuit[n].gate
              /\ circuit[n].gate # NoGate => circuit'[n] = circuit[n]
  <2>1. IsZero(n) \/ IsOne(n) => circuit[n].gate = NoGate
    BY <1>13 DEF GateSound, IsLeaf
  <2>2. CASE n \in ZeroNodes(k)
    BY <1>8, <1>10, <1>13, <2>1, <2>2 DEF LeafSound
  <2>3. CASE n \in OneNodes(k)
    BY <1>8, <1>11, <1>13, <2>1, <2>3 DEF LeafSound
  <2>4. CASE n \notin ZeroNodes(k) /\ n \notin OneNodes(k)
    BY <1>5, <1>7, <1>12, <2>4
  <2>. QED
    BY <2>2, <2>3, <2>4
<1>15. ASSUME NEW n \in E \ D
       PROVE  LeafSound(circuit', n, given) /\ circuit'[n].gate = NoGate
  <2>1. n \in Created(k)
    BY <1>5
  <2>2. \A j \in 1 .. Done : n \notin Created(Calls(option)[j])
    BY <1>2, <1>3, <1>5, EarlierThere
  <2>3. Kind(option, Done + 1, n)
    BY <1>3, <1>4, <2>1, CreatedKinds
  <2>4. (Done + 1) - 1 = Done
    BY <1>4
  <2>5. /\ IsZero(n) => n \in ZeroNodes(k) /\ ~IsOne(n)
        /\ IsOne(n)  => n \in OneNodes(k) /\ ~IsZero(n)
    BY <1>4, <2>2, <2>3, <2>4 DEF Kind
  <2>6. IsZero(n) \/ IsOne(n) => ~IsInput(n)
    BY ConstantsNoInputs
  <2>7. CASE n \in ZeroNodes(k)
    <3>1. LeafSound(circuit', n, given)
      BY <1>8, <1>10, <2>6, <2>7 DEF LeafSound
    <3>. QED
      BY <1>10, <2>7, <3>1
  <2>8. CASE n \in OneNodes(k)
    <3>1. LeafSound(circuit', n, given)
      BY <1>8, <1>11, <2>6, <2>8 DEF LeafSound
    <3>. QED
      BY <1>11, <2>8, <3>1
  <2>9. CASE n \notin ZeroNodes(k) /\ n \notin OneNodes(k)
    <3>1. circuit'[n] = NewNode(IF n \in DOMAIN given THEN given[n] ELSE 0)
      BY <1>7, <1>12, <2>9
    <3>2. /\ circuit'[n].type = "internal" /\ circuit'[n].gate = NoGate
          /\ circuit'[n].val = IF n \in DOMAIN given THEN given[n] ELSE 0
      BY <1>9, <3>1
    <3>3. ~IsZero(n) /\ ~IsOne(n)
      BY <2>5, <2>9
    <3>. QED
      BY <3>2, <3>3 DEF LeafSound
  <2>. QED
    BY <2>7, <2>8, <2>9
<1>16. \A n : Gated(circuit, n) => Gated(circuit', n)
  BY <1>5, <1>7, <1>14 DEF Gated
<1>17. \A n : Firm(circuit, n) => Firm(circuit', n) /\ circuit'[n].val = circuit[n].val
  BY <1>5, <1>7, <1>14, <1>16 DEF Firm
<1>18. Sound(circuit', given)
  <2>1. ASSUME NEW n \in D PROVE LeafSound(circuit', n, given)
    BY <1>13, <1>14 DEF LeafSound
  <2>2. ASSUME NEW n \in D, circuit'[n].gate # NoGate PROVE GateSound(circuit', n)
    <3>1. circuit'[n] = circuit[n] /\ GateSound(circuit, n)
      BY <1>13, <1>14, <2>2
    <3>2. \A j \in DOMAIN circuit[n].fanin : Firm(circuit, circuit[n].fanin[j])
      BY <3>1 DEF GateSound
    <3>3. ValuesOf(circuit', circuit[n].fanin) = ValuesOf(circuit, circuit[n].fanin)
      BY <1>17, <3>2, SameValues
    <3>. QED
      BY <1>17, <3>1, <3>2, <3>3 DEF GateSound
  <2>. QED
    BY <1>5, <1>7, <1>15, <2>1, <2>2 DEF Sound
<1>19. IsFiniteSet(E) /\ Cardinality(E) <= Memory
  <2>1. Cardinality(DOMAIN circuit \cup Created(k)) <= Memory
    BY <1>1 DEF CreateAll
  <2>. QED
    BY <1>5, <2>1, CreatedFinite, FS_Union DEF FInv
<1>20. \A j \in 1 .. Done : Sized(Calls(option)[j]) /\ MadeTo(circuit', Calls(option)[j], End(Calls(option)[j]))
  BY <1>2, <1>16 DEF FInv, MadeTo
<1>21. MadeTo(circuit', k, First(k))
  <2>1. First(k) \in Nat
    BY SizesAssumption DEF First
  <2>. QED
    BY <2>1 DEF MadeTo
<1>22. \A n \in E : Loose(circuit', n) => n \in CreatedFor(option)
  <2>1. \A n \in D : Loose(circuit', n) => Loose(circuit, n)
    BY <1>14 DEF Loose
  <2>2. \A n \in D : Loose(circuit, n) => n \in CreatedFor(option)
    BY <1>5 DEF FInv
  <2>3. Created(k) \subseteq CreatedFor(option)
    BY <1>4 DEF CreatedFor
  <2>. QED
    BY <1>5, <2>1, <2>2, <2>3
<1>23. call' = k /\ Done' = Done /\ Calls(option') = Calls(option) /\ CreatedFor(option') = CreatedFor(option)
  BY <1>1, <1>2, SameCalls
<1>24. ~saved
  BY <1>2 DEF FInv
<1>. QED
  BY <1>2, <1>3, <1>7, <1>18, <1>19, <1>20, <1>21, <1>22, <1>23, <1>24 DEF FInv

----------------------------------------------------------------------------
(* Saving *)

(* Inputs are leaves and outputs are read by nothing. *)
LEMMA PortNames ==
  ASSUME NEW o \in Option, NEW n
  PROVE  /\ n \in PortsOf(o).ins => IsInput(n) /\ ~IsZero(n) /\ ~IsOne(n)
         /\ n \in PortsOf(o).outs => IsSink(n) /\ ~IsLeaf(n)
<1>1. ASSUME NEW p \in {<<"a">>, <<"b">>, <<"orig">>}, NEW m, n \in Bits(p, m)
      PROVE  IsInput(n) /\ ~IsZero(n) /\ ~IsOne(n)
  <2>1. PICK i : n = Bit(p, i)
    BY <1>1, InBitsOf
  <2>. QED
    BY <2>1, PlainNames, BitIs DEF IsInput, InputPrefixes
<1>2. ASSUME NEW p \in {x, y}, n \in Bits(p, InBits)
      PROVE  IsInput(n) /\ ~IsZero(n) /\ ~IsOne(n)
  <2>1. PICK i \in 0 .. (InBits - 1) : n = Bit(p, i)
    BY <1>2, InBitsOf
  <2>2. i < InBits
    BY SizesAssumption
  <2>. QED
    BY <2>1, <2>2, PlainNames, BitIs DEF IsInput, BasePrefixes
<1>3. ASSUME NEW p \in {<<"s">>, <<"out">>, z}, NEW m, n \in Bits(p, m)
      PROVE  IsSink(n) /\ ~IsLeaf(n)
  <2>1. PICK i : n = Bit(p, i)
    BY <1>3, InBitsOf
  <2>2. n[1] \in SinkPrefixes
    BY <2>1, BitIs DEF SinkPrefixes, z
  <2>. QED
    BY <2>2, SinkNames
<1>4. IsInput(Wire("cin")) /\ ~IsZero(Wire("cin")) /\ ~IsOne(Wire("cin"))
  BY PlainNames, WireIs, BitIs DEF IsInput, InputPrefixes
<1>5. IsSink(Wire("cout")) /\ ~IsLeaf(Wire("cout"))
  <2>1. Wire("cout")[1] \in SinkPrefixes
    BY WireIs, BitIs DEF SinkPrefixes
  <2>. QED
    BY <2>1, SinkNames
<1>6. CASE o.op = "add"
  <2>1. /\ PortsOf(o).ins = Bits(<<"a">>, o.bits) \cup Bits(<<"b">>, o.bits) \cup {Wire("cin")}
        /\ PortsOf(o).outs = Bits(<<"s">>, o.bits) \cup {Wire("cout")}
    BY <1>6 DEF PortsOf
  <2>. QED
    BY <1>1, <1>3, <1>4, <1>5, <2>1
<1>7. CASE o.op = "sub"
  <2>1. /\ PortsOf(o).ins = Bits(<<"a">>, o.bits) \cup Bits(<<"b">>, o.bits)
        /\ PortsOf(o).outs = Bits(<<"s">>, o.bits)
    BY <1>7 DEF PortsOf
  <2>. QED
    BY <1>1, <1>3, <2>1
<1>8. CASE o.op = "shift"
  <2>1. PortsOf(o).ins = Bits(<<"orig">>, o.bits) /\ PortsOf(o).outs = Bits(<<"out">>, Outputs(o))
    BY <1>8 DEF PortsOf
  <2>. QED
    BY <1>1, <1>3, <2>1
<1>9. CASE o.op = "absmin"
  <2>1. PortsOf(o).ins = Bits(x, InBits) \cup Bits(y, InBits) /\ PortsOf(o).outs = Bits(z, Width)
    BY <1>9 DEF PortsOf
  <2>. QED
    BY <1>2, <1>3, <2>1
<1>. QED
  BY <1>6, <1>7, <1>8, <1>9 DEF Option

LEMMA AllPortsInputs ==
  ASSUME NEW n \in AllPorts
  PROVE  IsInput(n) /\ ~IsSink(n)
<1>1. PICK o \in Options : n \in PortsOf(o).ins
  BY DEF AllPorts
<1>2. IsInput(n)
  BY <1>1, PortNames, OptionsAssumption
<1>. QED
  BY <1>2, LeafNames DEF IsLeaf

LEMMA SaveKeeps ==
  ASSUME FInv, Save
  PROVE  FInv'
<1>1. /\ phase = "build" /\ todo = <<>> /\ phase' = "options"
      /\ UNCHANGED <<left, option, todo, bit, tally, given>>
  BY DEF Save
<1>2. TInv /\ TInv' /\ bit = NoBit
  BY <1>1, SaveTyped DEF FInv, TInv, GInv, Building
<1>3. option \in Options /\ option \in Option /\ Len(Calls(option)) \in Nat
  BY <1>1, <1>2, OptionsAssumption, CallsProper DEF TInv, Progress
<1>4. Done = Len(Calls(option))
  BY <1>1, <1>3 DEF Done
<1>5. PICK D, ins, outs : D = DOMAIN circuit /\ ins = PortsOf(option).ins /\ outs = PortsOf(option).outs
  OBVIOUS
<1>6. circuit' = SetPorts(circuit, ins, outs) /\ DOMAIN circuit' = D
  BY <1>5 DEF Save, SetPorts
<1>7. ASSUME NEW n \in D
      PROVE  /\ circuit'[n].gate = circuit[n].gate /\ circuit'[n].fanin = circuit[n].fanin /\ circuit'[n].val = circuit[n].val
             /\ circuit'[n].type = IF n \in ins THEN "input" ELSE IF n \in outs THEN "output" ELSE circuit[n].type
  <2>1. PICK r \in NodeOver(D) : r = circuit[n]
    BY <1>2, <1>5 DEF TInv, CircuitOver
  <2>2. PICK t : t = IF n \in ins THEN "input" ELSE IF n \in outs THEN "output" ELSE r.type
    OBVIOUS
  <2>3. circuit'[n] = [r EXCEPT !.type = t]
    BY <1>5, <1>6, <2>1, <2>2 DEF SetPorts
  <2>. QED
    BY <2>1, <2>2, <2>3 DEF NodeOver
<1>8. \A n : /\ n \in ins => IsInput(n) /\ ~IsZero(n) /\ ~IsOne(n)
             /\ n \in outs => IsSink(n) /\ ~IsLeaf(n)
  BY <1>3, <1>5, PortNames
<1>9. \A n \in D : LeafSound(circuit, n, given) /\ (circuit[n].gate # NoGate => GateSound(circuit, n))
  BY <1>5 DEF FInv, Sound
<1>10. ASSUME NEW n \in D PROVE LeafSound(circuit', n, given)
  <2>1. n \in ins => n \in AllPorts
    BY <1>3, <1>5 DEF AllPorts
  <2>. QED
    BY <1>7, <1>8, <1>9, <2>1 DEF LeafSound, IsLeaf
<1>11. \A n : Firm(circuit, n) => Firm(circuit', n) /\ circuit'[n].val = circuit[n].val
  BY <1>5, <1>6, <1>7 DEF Firm, Gated
<1>12. ASSUME NEW n \in D, circuit'[n].gate # NoGate PROVE GateSound(circuit', n)
  <2>1. GateSound(circuit, n) /\ circuit'[n].gate = circuit[n].gate /\ circuit'[n].fanin = circuit[n].fanin
        /\ circuit'[n].val = circuit[n].val
    BY <1>7, <1>9, <1>12
  <2>2. \A j \in DOMAIN circuit[n].fanin : Firm(circuit, circuit[n].fanin[j])
    BY <2>1 DEF GateSound
  <2>3. ValuesOf(circuit', circuit[n].fanin) = ValuesOf(circuit, circuit[n].fanin)
    BY <1>11, <2>2, SameValues
  <2>. QED
    BY <1>11, <2>1, <2>2, <2>3 DEF GateSound
<1>13. Sound(circuit', given)
  BY <1>6, <1>10, <1>12 DEF Sound
<1>14. ASSUME NEW n \in D, Loose(circuit', n) PROVE FALSE
  <2>1. n \notin ins /\ ~IsZero(n) /\ ~IsOne(n) /\ circuit[n].gate = NoGate
    BY <1>7, <1>14 DEF Loose
  <2>2. circuit[n].type # "input"
    <3>1. circuit[n].type = "input" => n \in AllPorts
      BY <1>9 DEF LeafSound
    <3>2. n \in outs => n \notin AllPorts
      BY <1>8, AllPortsInputs
    <3>. QED
      BY <1>7, <1>14, <3>1, <3>2 DEF Loose
  <2>3. n \in CreatedFor(option)
    BY <1>5, <2>1, <2>2 DEF FInv, Loose
  <2>4. PICK i \in 1 .. Len(Calls(option)) : n \in Created(Calls(option)[i])
    BY <2>3 DEF CreatedFor
  <2>5. \A j \in 1 .. Len(Calls(option)) :
          Sized(Calls(option)[j]) /\ MadeTo(circuit, Calls(option)[j], End(Calls(option)[j]))
    BY <1>1, <1>4 DEF FInv
  <2>6. Kind(option, i, n)
    BY <1>3, <2>4, <2>5, CreatedKinds
  <2>7. Accounted(option, n)
    BY <2>1, <2>6 DEF Kind
  <2>8. PICK j \in 1 .. Len(Calls(option)) : Driven(Calls(option)[j], n)
    BY <1>5, <2>1, <2>7 DEF Accounted
  <2>9. Gated(circuit, n)
    BY <2>5, <2>8 DEF MadeTo, Driven
  <2>. QED
    BY <2>1, <2>9 DEF Gated
<1>15. IsFiniteSet(D) /\ Cardinality(D) <= Memory
  BY <1>5 DEF FInv
<1>. QED
  BY <1>1, <1>2, <1>6, <1>13, <1>14, <1>15 DEF FInv

LEMMA FSteps == FInv /\ [Next]_vars => FInv'
  BY ReadOptionKeeps, CreateAllKeeps, BuildKeeps, EndCallKeeps, SaveKeeps, StopKeeps DEF Next, Stopped

LEMMA FInitially == Init => FInv
<1>. SUFFICES ASSUME Init PROVE FInv
  OBVIOUS
<1>1. TInv
  BY TInitially
<1>2. phase = "options" /\ bit = NoBit /\ circuit = <<>> /\ ~saved
  BY DEF Init
<1>3. DOMAIN circuit = {}
  BY <1>2
<1>4. IsFiniteSet(DOMAIN circuit) /\ Cardinality(DOMAIN circuit) <= Memory
  BY <1>3, FS_EmptySet, SizesAssumption
<1>. QED
  BY <1>1, <1>2, <1>3, <1>4 DEF FInv, Sound

LEMMA RowLengths ==
  ASSUME NEW g \in Gates
  PROVE  \A row \in Rows[g] : Len(row) = Arity[g]
<1>1. /\ \A v : Len(<<v>>) = 1
      /\ \A v, w : Len(<<v, w>>) = 2
      /\ \A u, v, w : Len(<<u, v, w>>) = 3
      /\ \A t, u, v, w, p, q : Len(<<t, u, v, w, p, q>>) = 6
  OBVIOUS
<1>2. CASE g = "buf1"
  BY <1>1, <1>2 DEF Rows, Arity
<1>3. CASE g = "or2"
  BY <1>1, <1>3 DEF Rows, Arity
<1>4. CASE g = "and2"
  BY <1>1, <1>4 DEF Rows, Arity
<1>5. CASE g = "xor3"
  BY <1>1, <1>5 DEF Rows, Arity
<1>6. CASE g = "mux4"
  BY <1>1, <1>6 DEF Rows, Arity
<1>. QED
  BY <1>2, <1>3, <1>4, <1>5, <1>6 DEF Gates

LEMMA FDetermines == FInv => FileDetermines
<1>. SUFFICES ASSUME FInv, saved PROVE FileDetermines
  BY DEF FileDetermines
<1>1. /\ TInv /\ given \in Stimuli
      /\ \A n \in DOMAIN circuit : ~Loose(circuit, n)
  BY DEF FInv, TInv, GInv
<1>2. \A n \in DOMAIN circuit : LeafSound(circuit, n, given) /\ (circuit[n].gate # NoGate => GateSound(circuit, n))
  BY DEF FInv, Sound
<1>. DEFINE f == Written(circuit)
<1>3. /\ f.inputs = OfType(circuit, "input")
      /\ f.names = [n \in DOMAIN circuit \ OfType(circuit, "input") |->
                  IF circuit[n].type \in {"zero", "one"}
                  THEN [fanin |-> <<>>, gate |-> circuit[n].type]
                  ELSE [fanin |-> circuit[n].fanin, gate |-> circuit[n].gate]]
  BY DEF Written
<1>4. \A n : n \in OfType(circuit, "input") <=> n \in DOMAIN circuit /\ circuit[n].type = "input"
  BY DEF OfType
<1>5. ASSUME NEW n \in f.inputs PROVE val(n) = given[n]
  <2>1. n \in DOMAIN circuit /\ n \in AllPorts
    BY <1>2, <1>3, <1>4 DEF LeafSound
  <2>2. n \in DOMAIN given
    BY <1>1, <2>1, PortsAssumption DEF AllPorts
  <2>. QED
    BY <1>2, <2>1, <2>2, AllPortsInputs DEF LeafSound, val
<1>6. ASSUME NEW n \in DOMAIN f.names
      PROVE  LET s == f.names[n]
             IN CASE s.gate = "zero" -> val(n) = 0
                  [] s.gate = "one"  -> val(n) = 1
                  [] s.gate \in Gates ->
                       /\ \A row \in Rows[s.gate] : Len(row) = Len(s.fanin)
                       /\ val(n) = Value(s.gate, ValuesOf(circuit, s.fanin))
                  [] OTHER -> FALSE
  <2>1. n \in DOMAIN circuit /\ circuit[n].type # "input"
    BY <1>3, <1>4
  <2>2. PICK s : s = f.names[n]
    OBVIOUS
  <2>3. LeafSound(circuit, n, given)
    BY <1>2, <2>1
  <2>4. CASE circuit[n].type = "zero"
    <3>1. s.gate = "zero" /\ s.gate # "one" /\ s.gate \notin Gates
      BY <1>3, <2>2, <2>4 DEF Gates
    <3>2. val(n) = 0
      BY <2>3, <2>4 DEF LeafSound, val
    <3>. QED
      BY <2>2, <3>1, <3>2
  <2>5. CASE circuit[n].type = "one"
    <3>1. s.gate = "one" /\ s.gate # "zero" /\ s.gate \notin Gates
      BY <1>3, <2>2, <2>5 DEF Gates
    <3>2. val(n) = 1
      BY <2>3, <2>5 DEF LeafSound, val
    <3>. QED
      BY <2>2, <3>1, <3>2
  <2>6. CASE circuit[n].type \notin {"zero", "one"}
    <3>1. s.gate = circuit[n].gate /\ s.fanin = circuit[n].fanin
      BY <1>3, <2>2, <2>6
    <3>2. circuit[n].gate # NoGate
      BY <1>1, <2>1, <2>3, <2>6 DEF Loose, LeafSound
    <3>3. GateSound(circuit, n)
      BY <1>2, <2>1, <3>2
    <3>4. s.gate \in Gates /\ Len(s.fanin) = Arity[s.gate] /\ val(n) = Value(s.gate, ValuesOf(circuit, s.fanin))
      BY <3>1, <3>3 DEF GateSound, val
    <3>5. \A row \in Rows[s.gate] : Len(row) = Len(s.fanin)
      BY <3>4, RowLengths
    <3>6. s.gate # "zero" /\ s.gate # "one"
      BY <3>4 DEF Gates
    <3>. QED
      BY <2>2, <3>4, <3>5, <3>6
  <2>. QED
    BY <2>4, <2>5, <2>6
<1>. QED
  BY <1>5, <1>6 DEF FileDetermines

(* circuit.cpp:119-196: the file that is written says what the circuit does,   *)
(* whatever modules of whatever widths were built into it before: every name    *)
(* in it is an input or is driven, with as many fanins as its table has columns, *)
(* and gates that are built again are the gates they were.                    *)
THEOREM FileIsRight == Spec => []FileDetermines
  BY FInitially, FSteps, FDetermines, PTL DEF Spec

----------------------------------------------------------------------------
(* No cycle *)

(* The names that an option's nodes have. *)
InnerName(n) == \E q \in ChainOuts, w \in InnerWords, i \in Nat : n = Bit(Suffixed(q, w), i)
BaseName(n) == \/ \E p \in BasePrefixes, i \in Nat : n = Bit(p, i)
               \/ n \in {Wire("sel1"), Wire("sel2")}
Known(n) == IsLeaf(n) \/ IsSink(n) \/ InnerName(n) \/ BaseName(n)

(* How far from the inputs a name is: the unit it belongs to, and its place in *)
(* the ripple chain of that unit.                                            *)
Unit(p) ==
  CASE p \in {<<"s">>, x, y} -> 1
    [] p \in {fourX, twoY} -> 2
    [] p \in {fiveX, threeY} -> 3
    [] p \in {minus5X, minus3Y, diff} -> 4
    [] OTHER -> 5
Step(w) ==
  CASE w \in {"_notAxorB", "_temp2"} -> 1
    [] w \in {"_ciAxorB", "_temp1"} -> 2
    [] w \in {"_c", "_Bo"} -> 3
    [] OTHER -> 0
Stage(n) == IF Last(n[1]) \in InnerWords THEN Unit(Front(n[1])) ELSE Unit(n[1])
Place(n) == 4 * (n[2] + 1) + (IF Last(n[1]) \in InnerWords THEN Step(Last(n[1])) ELSE 0)
Nearer(m, n) == IsLeaf(m) \/ Stage(m) < Stage(n) \/ (Stage(m) = Stage(n) /\ Place(m) < Place(n))

LEMMA InnerStage ==
  ASSUME NEW q \in ChainOuts, NEW w \in InnerWords, NEW i \in Int
  PROVE  LET n == Bit(Suffixed(q, w), i)
         IN Stage(n) = Unit(q) /\ Place(n) = 4 * (i + 1) + Step(w)
<1>1. w \in Words /\ q \in Seq(Words)
  BY ChainWords DEF InnerWords, Words
<1>2. PICK p : p = Suffixed(q, w)
  OBVIOUS
<1>3. Last(p) = w /\ Front(p) = q
  BY <1>1, <1>2, LastFront
<1>4. Bit(p, i)[1] = p /\ Bit(p, i)[2] = i
  BY BitIs
<1>. QED
  BY <1>2, <1>3, <1>4 DEF Stage, Place

LEMMA BaseStage ==
  ASSUME NEW p \in BasePrefixes, NEW i \in Int
  PROVE  Stage(Bit(p, i)) = Unit(p) /\ Place(Bit(p, i)) = 4 * (i + 1)
<1>1. \A v, w : Last(<<v, w>>) = w /\ Last(<<v>>) = v
  BY DEF Last
<1>2. Last(p) \notin InnerWords
  BY <1>1 DEF BasePrefixes, InnerWords, fiveX, threeY, minus5X, minus3Y, diff, fourX, twoY, x, y
<1>3. Bit(p, i)[1] = p /\ Bit(p, i)[2] = i
  BY BitIs
<1>. QED
  BY <1>2, <1>3 DEF Stage, Place

LEMMA Units ==
  /\ Unit(<<"s">>) = 1 /\ Unit(x) = 1 /\ Unit(y) = 1 /\ Unit(fourX) = 2 /\ Unit(twoY) = 2
  /\ Unit(fiveX) = 3 /\ Unit(threeY) = 3
  /\ Unit(minus5X) = 4 /\ Unit(minus3Y) = 4 /\ Unit(diff) = 4
  /\ Unit(<<"sel1">>) = 5 /\ Unit(<<"sel2">>) = 5
<1>1. \A u, v, w : <<u, v>> # <<w>>
  OBVIOUS
<1>2. \A t, u, v, w : <<t, u>> = <<v, w>> => u = w
  OBVIOUS
<1>3. \A v, w : <<v>> = <<w>> => v = w
  OBVIOUS
<1>4. /\ \A p \in {fourX, twoY, fiveX, threeY, minus5X, minus3Y, diff} : p \notin {<<"s">>, x, y, <<"sel1">>, <<"sel2">>}
      /\ \A p \in {<<"sel1">>, <<"sel2">>} : p \notin {<<"s">>, x, y}
  BY <1>1, <1>3 DEF fiveX, threeY, minus5X, minus3Y, diff, fourX, twoY, x, y
<1>. QED
  BY <1>4, BasesApart DEF Unit

(* What the constants and the carries in of the chains are. *)
LEMMA LeafWires ==
  /\ IsLeaf(Wire("zero")) /\ IsLeaf(Wire("one")) /\ IsLeaf(Wire("ZERO")) /\ IsLeaf(Wire("cin"))
  /\ \A i : IsLeaf(Bit(<<"a">>, i)) /\ IsLeaf(Bit(<<"b">>, i)) /\ IsLeaf(Bit(zeros, i))
  /\ \A i : i < InBits => IsLeaf(Bit(x, i)) /\ IsLeaf(Bit(y, i))
<1>1. \A i : IsInput(Bit(<<"a">>, i)) /\ IsInput(Bit(<<"b">>, i)) /\ IsInput(Bit(<<"cin">>, i))
  BY BitIs DEF IsInput, InputPrefixes
<1>2. \A i : i < InBits => IsInput(Bit(x, i)) /\ IsInput(Bit(y, i))
  BY BitIs DEF IsInput
<1>. QED
  BY <1>1, <1>2, ConstantNames, WireIs DEF IsLeaf

LEMMA ChainStages ==
  ASSUME NEW q \in ChainOuts, NEW i \in Nat
  PROVE  /\ IsLeaf(Bit(Chain(q).a, i)) \/ Stage(Bit(Chain(q).a, i)) < Unit(q)
         /\ IsLeaf(Bit(Chain(q).b, i)) \/ Stage(Bit(Chain(q).b, i)) < Unit(q)
         /\ IsLeaf(Chain(q).cin)
<1>1. /\ \A p \in {fiveX, threeY, minus5X, minus3Y, diff} : p # <<"s">>
      /\ fiveX # threeY /\ fiveX # minus5X /\ fiveX # minus3Y /\ fiveX # diff
      /\ threeY # minus5X /\ threeY # minus3Y /\ threeY # diff
      /\ minus5X # minus3Y /\ minus5X # diff /\ minus3Y # diff
  BY DEF fiveX, threeY, minus5X, minus3Y, diff
<1>2. \A p \in {x, y, fourX, twoY, fiveX, threeY} : Stage(Bit(p, i)) = Unit(p)
  BY BaseStage DEF BasePrefixes
<1>3. CASE q = <<"s">>
  <2>1. Chain(q).a = <<"a">> /\ Chain(q).b = <<"b">> /\ Chain(q).cin = Wire("cin")
    BY <1>1, <1>3 DEF Chain
  <2>. QED
    BY <2>1, LeafWires
<1>4. CASE q = fiveX
  <2>1. Chain(q).a = x /\ Chain(q).b = fourX /\ Chain(q).cin = Wire("ZERO")
    BY <1>1, <1>4 DEF Chain
  <2>. QED
    BY <1>2, <1>4, <2>1, LeafWires, Units
<1>5. CASE q = threeY
  <2>1. Chain(q).a = y /\ Chain(q).b = twoY /\ Chain(q).cin = Wire("ZERO")
    BY <1>1, <1>5 DEF Chain
  <2>. QED
    BY <1>2, <1>5, <2>1, LeafWires, Units
<1>6. CASE q = minus5X
  <2>1. Chain(q).a = zeros /\ Chain(q).b = fiveX /\ Chain(q).cin = Wire("cin")
    BY <1>1, <1>6 DEF Chain
  <2>. QED
    BY <1>2, <1>6, <2>1, LeafWires, Units
<1>7. CASE q = minus3Y
  <2>1. Chain(q).a = zeros /\ Chain(q).b = threeY /\ Chain(q).cin = Wire("cin")
    BY <1>1, <1>7 DEF Chain
  <2>. QED
    BY <1>2, <1>7, <2>1, LeafWires, Units
<1>8. CASE q = diff
  <2>1. Chain(q).a = fiveX /\ Chain(q).b = threeY /\ Chain(q).cin = Wire("cin")
    BY <1>1, <1>8 DEF Chain
  <2>. QED
    BY <1>2, <1>8, <2>1, LeafWires, Units
<1>. QED
  BY <1>3, <1>4, <1>5, <1>6, <1>7, <1>8 DEF ChainOuts

(* The fanins of a list of one, two or three. *)
AllNearer(ins, n) == \A j \in DOMAIN ins : Nearer(ins[j], n)
LEMMA NearerLists ==
  /\ \A a, n : Nearer(a, n) => AllNearer(<<a>>, n)
  /\ \A a, b, n : Nearer(a, n) /\ Nearer(b, n) => AllNearer(<<a, b>>, n)
  /\ \A a, b, c, n : Nearer(a, n) /\ Nearer(b, n) /\ Nearer(c, n) => AllNearer(<<a, b, c>>, n)
<1>1. \A a : DOMAIN <<a>> = {1} /\ <<a>>[1] = a
  OBVIOUS
<1>2. \A a, b : DOMAIN <<a, b>> = {1, 2} /\ <<a, b>>[1] = a /\ <<a, b>>[2] = b
  OBVIOUS
<1>3. \A a, b, c : DOMAIN <<a, b, c>> = {1, 2, 3} /\ <<a, b, c>>[1] = a /\ <<a, b, c>>[2] = b /\ <<a, b, c>>[3] = c
  OBVIOUS
<1>. QED
  BY <1>1, <1>2, <1>3 DEF AllNearer

LEMMA InnerNearer ==
  ASSUME NEW q \in ChainOuts, NEW w \in InnerWords, NEW i \in Nat
  PROVE  AllNearer(Inner(q, w, i).fanin, Bit(Suffixed(q, w), i))
<1>. DEFINE wire(v) == Bit(Suffixed(q, v), i)
<1>1. PICK n : n = wire(w)
  OBVIOUS
<1>2. Stage(n) = Unit(q) /\ Place(n) = 4 * (i + 1) + Step(w) /\ Unit(q) \in Int
  BY <1>1, InnerStage DEF Unit
<1>3. PICK a, b : a = Bit(Chain(q).a, i) /\ b = Bit(Chain(q).b, i)
  OBVIOUS
<1>4. Nearer(a, n) /\ Nearer(b, n)
  BY <1>2, <1>3, ChainStages DEF Nearer
<1>5. Nearer(Wire("zero"), n) /\ Nearer(Wire("one"), n)
  BY LeafWires DEF Nearer
<1>6. \A v \in InnerWords : Step(v) \in Int /\ (Step(v) < Step(w) => Nearer(wire(v), n))
  <2>1. \A v \in InnerWords : Step(v) \in Int
    BY DEF Step
  <2>2. \A v \in InnerWords : Stage(wire(v)) = Unit(q) /\ Place(wire(v)) = 4 * (i + 1) + Step(v)
    BY InnerStage
  <2>. QED
    BY <1>2, <2>1, <2>2 DEF Nearer
<1>7. \A v \in {"_c", "_Bo"} : i # 0 => Nearer(Bit(Suffixed(q, v), i - 1), n)
  <2>. SUFFICES ASSUME NEW v \in {"_c", "_Bo"}, i # 0 PROVE Nearer(Bit(Suffixed(q, v), i - 1), n)
    OBVIOUS
  <2>1. v \in InnerWords /\ i - 1 \in Int /\ Step(v) = 3
    BY DEF InnerWords, Step
  <2>2. Stage(Bit(Suffixed(q, v), i - 1)) = Unit(q) /\ Place(Bit(Suffixed(q, v), i - 1)) = 4 * i + 3
    BY <2>1, InnerStage
  <2>3. Step(w) \in {0, 1, 2, 3}
    BY DEF Step
  <2>. QED
    BY <1>2, <2>2, <2>3 DEF Nearer
<1>8. Nearer(ChainCarry(q, i), n) /\ Nearer(ChainBorrow(q, i), n)
  BY <1>7, ChainStages, LeafWires DEF ChainCarry, ChainBorrow, Nearer
<1>9. /\ Step("_AB") = 0 /\ Step("_AxorB") = 0 /\ Step("_notA") = 0 /\ Step("_notAxorB") = 1 /\ Step("_temp2") = 1
      /\ Step("_ciAxorB") = 2 /\ Step("_temp1") = 2 /\ Step("_c") = 3 /\ Step("_Bo") = 3
  BY DEF Step
<1>10. \A g, ins : Gate(g, ins).fanin = ins
  BY DEF Gate
<1>. HIDE DEF wire
<1>11. CASE w = "_AB"
  <2>1. Inner(q, w, i) = Gate("and2", <<a, b>>)
    BY <1>3, <1>11 DEF Inner
  <2>. QED
    BY <1>1, <1>4, <1>10, <2>1, NearerLists DEF wire
<1>12. CASE w = "_AxorB"
  <2>1. Inner(q, w, i) = Gate("xor3", <<Wire("zero"), a, b>>)
    BY <1>3, <1>12 DEF Inner
  <2>. QED
    BY <1>1, <1>4, <1>5, <1>10, <2>1, NearerLists DEF wire
<1>13. CASE w = "_ciAxorB"
  <2>1. Inner(q, w, i) = Gate("and2", <<ChainCarry(q, i), wire("_AxorB")>>)
    BY <1>13 DEF Inner, wire
  <2>2. Nearer(wire("_AxorB"), n)
    BY <1>6, <1>9, <1>13 DEF InnerWords
  <2>. QED
    BY <1>1, <1>8, <1>10, <2>1, <2>2, NearerLists DEF wire
<1>14. CASE w = "_c"
  <2>1. Inner(q, w, i) = Gate("or2", <<wire("_AB"), wire("_ciAxorB")>>)
    BY <1>14 DEF Inner, wire
  <2>2. Nearer(wire("_AB"), n) /\ Nearer(wire("_ciAxorB"), n)
    BY <1>6, <1>9, <1>14 DEF InnerWords
  <2>. QED
    BY <1>1, <1>10, <2>1, <2>2, NearerLists DEF wire
<1>15. CASE w = "_notAxorB"
  <2>1. Inner(q, w, i) = Gate("xor3", <<Wire("zero"), wire("_AxorB"), Wire("one")>>)
    BY <1>15 DEF Inner, wire
  <2>2. Nearer(wire("_AxorB"), n)
    BY <1>6, <1>9, <1>15 DEF InnerWords
  <2>. QED
    BY <1>1, <1>5, <1>10, <2>1, <2>2, NearerLists DEF wire
<1>16. CASE w = "_temp1"
  <2>1. Inner(q, w, i) = Gate("and2", <<ChainBorrow(q, i), wire("_notAxorB")>>)
    BY <1>16 DEF Inner, wire
  <2>2. Nearer(wire("_notAxorB"), n)
    BY <1>6, <1>9, <1>16 DEF InnerWords
  <2>. QED
    BY <1>1, <1>8, <1>10, <2>1, <2>2, NearerLists DEF wire
<1>17. CASE w = "_notA"
  <2>1. Inner(q, w, i) = Gate("xor3", <<Wire("zero"), a, Wire("one")>>)
    BY <1>3, <1>17 DEF Inner
  <2>. QED
    BY <1>1, <1>4, <1>5, <1>10, <2>1, NearerLists DEF wire
<1>18. CASE w = "_temp2"
  <2>1. Inner(q, w, i) = Gate("and2", <<wire("_notA"), b>>)
    BY <1>3, <1>18 DEF Inner, wire
  <2>2. Nearer(wire("_notA"), n)
    BY <1>6, <1>9, <1>18 DEF InnerWords
  <2>. QED
    BY <1>1, <1>4, <1>10, <2>1, <2>2, NearerLists DEF wire
<1>19. CASE w = "_Bo"
  <2>1. Inner(q, w, i) = Gate("or2", <<wire("_temp1"), wire("_temp2")>>)
    BY <1>19 DEF Inner, wire
  <2>2. Nearer(wire("_temp1"), n) /\ Nearer(wire("_temp2"), n)
    BY <1>6, <1>9, <1>19 DEF InnerWords
  <2>. QED
    BY <1>1, <1>10, <2>1, <2>2, NearerLists DEF wire
<1>. QED
  BY <1>11, <1>12, <1>13, <1>14, <1>15, <1>16, <1>17, <1>18, <1>19 DEF InnerWords

LEMMA BaseNearer ==
  ASSUME NEW p \in BasePrefixes, NEW i \in Int, i \in Nat \/ p \in {<<"sel1">>, <<"sel2">>},
         ~IsLeaf(Bit(p, i))
  PROVE  AllNearer(Base(p, i).fanin, Bit(p, i))
<1>1. PICK n : n = Bit(p, i)
  OBVIOUS
<1>2. Stage(n) = Unit(p) /\ Place(n) = 4 * (i + 1)
  BY <1>1, BaseStage
<1>3. \A g, ins : Gate(g, ins).fanin = ins
  BY DEF Gate
<1>4. Width \in Nat /\ InBits \in Nat \ {0} /\ Width - 1 \in Int
  BY SizesAssumption DEF Width
<1>5. \A q \in BasePrefixes : \A j \in Int : Stage(Bit(q, j)) = Unit(q)
  BY BaseStage
<1>6. CASE p \in {fiveX, threeY, minus5X, minus3Y, diff}
  <2>1. p \in ChainOuts /\ i \in Nat
    BY <1>6, BasesApart DEF ChainOuts
  <2>2. Nearer(Bit(Chain(p).a, i), n) /\ Nearer(Bit(Chain(p).b, i), n) /\ IsLeaf(Chain(p).cin)
    BY <1>2, <2>1, ChainStages DEF Nearer
  <2>3. \A v \in {"_c", "_Bo"} : i # 0 => Nearer(Bit(Suffixed(p, v), i - 1), n)
    <3>. SUFFICES ASSUME NEW v \in {"_c", "_Bo"}, i # 0 PROVE Nearer(Bit(Suffixed(p, v), i - 1), n)
      OBVIOUS
    <3>1. v \in InnerWords /\ i - 1 \in Int /\ Step(v) = 3
      BY <2>1 DEF InnerWords, Step
    <3>2. Stage(Bit(Suffixed(p, v), i - 1)) = Unit(p) /\ Place(Bit(Suffixed(p, v), i - 1)) = 4 * i + 3
      BY <2>1, <3>1, InnerStage
    <3>. QED
      BY <1>2, <2>1, <3>2 DEF Nearer
  <2>4. Nearer(ChainCarry(p, i), n) /\ Nearer(ChainBorrow(p, i), n)
    BY <2>2, <2>3, LeafWires DEF ChainCarry, ChainBorrow, Nearer
  <2>5. Base(p, i) = Sum(p, i, ChainCarry(p, i)) \/ Base(p, i) = Sum(p, i, ChainBorrow(p, i))
    BY <1>6, BasesApart DEF Base
  <2>6. \A e : Sum(p, i, e).fanin = <<Bit(Chain(p).a, i), Bit(Chain(p).b, i), e>>
    BY <1>3 DEF Sum
  <2>. QED
    BY <1>1, <2>2, <2>4, <2>5, <2>6, NearerLists
<1>7. CASE p \in {fourX, twoY}
  <2>1. i \in Nat /\ Unit(p) = 2
    BY <1>7, BasesApart, Units
  <2>2. \E q \in {x, y}, j \in Int : Base(p, i) = Moved(q, j)
    <3>1. p = fourX => Base(p, i) = Moved(x, i - 2)
      BY BasesApart DEF Base
    <3>2. p = twoY => Base(p, i) = Moved(y, i - 1)
      BY BasesApart DEF Base
    <3>. QED
      BY <1>7, <3>1, <3>2
  <2>3. PICK q \in {x, y}, j \in Int : Base(p, i) = Moved(q, j)
    BY <2>2
  <2>4. PICK e : e = IF j < 0 THEN Wire("ZERO") ELSE Bit(q, j)
    OBVIOUS
  <2>5. Base(p, i).fanin = <<e>>
    BY <1>3, <2>3, <2>4 DEF Moved
  <2>6. Stage(Bit(q, j)) = 1
    BY <1>5, <2>3, Units DEF BasePrefixes
  <2>7. Nearer(e, n)
    BY <1>2, <2>1, <2>4, <2>6, LeafWires DEF Nearer
  <2>. QED
    BY <1>1, <2>5, <2>7, NearerLists
<1>8. CASE p \in {x, y}
  <2>1. Base(p, i) = Gate("buf1", <<Bit(p, InBits - 1)>>)
    BY <1>8, BasesApart DEF Base
  <2>2. InBits - 1 < InBits
    BY <1>4
  <2>3. IsLeaf(Bit(p, InBits - 1))
    BY <1>8, <2>2, LeafWires
  <2>. QED
    BY <1>1, <1>3, <2>1, <2>3, NearerLists DEF Nearer
<1>9. CASE p = <<"sel1">>
  <2>1. Base(p, i) = Gate("or2", <<Bit(fiveX, Width - 1), Bit(threeY, Width - 1)>>)
    BY <1>9, BasesApart DEF Base
  <2>2. Nearer(Bit(fiveX, Width - 1), n) /\ Nearer(Bit(threeY, Width - 1), n)
    BY <1>2, <1>4, <1>5, <1>9, Units DEF Nearer, BasePrefixes
  <2>. QED
    BY <1>1, <1>3, <2>1, <2>2, NearerLists
<1>10. CASE p = <<"sel2">>
  <2>1. Base(p, i) = Gate("buf1", <<Bit(diff, Width - 1)>>)
    BY <1>10, BasesApart DEF Base
  <2>2. Nearer(Bit(diff, Width - 1), n)
    BY <1>2, <1>4, <1>5, <1>10, Units DEF Nearer, BasePrefixes
  <2>. QED
    BY <1>1, <1>3, <2>1, <2>2, NearerLists
<1>. QED
  BY <1>6, <1>7, <1>8, <1>9, <1>10 DEF BasePrefixes

(* What a gate is made of is nearer to the inputs than the gate. *)
LEMMA CanonNearer ==
  ASSUME NEW n, Known(n), ~IsLeaf(n), ~IsSink(n)
  PROVE  AllNearer(Canon(n).fanin, n) /\ Stage(n) \in Nat /\ Place(n) \in Nat
<1>1. CASE InnerName(n)
  <2>1. PICK q \in ChainOuts, w \in InnerWords, i \in Nat : n = Bit(Suffixed(q, w), i)
    BY <1>1 DEF InnerName
  <2>2. Canon(n) = Inner(q, w, i)
    BY <2>1, CanonInner
  <2>3. Stage(n) = Unit(q) /\ Place(n) = 4 * (i + 1) + Step(w)
    BY <2>1, InnerStage
  <2>4. Unit(q) \in Nat /\ Step(w) \in Nat
    BY DEF Unit, Step
  <2>. QED
    BY <2>1, <2>2, <2>3, <2>4, InnerNearer
<1>2. CASE BaseName(n)
  <2>1. NoBit \in Int /\ NoBit + 1 = 0
    BY DEF NoBit
  <2>2. PICK p \in BasePrefixes, i \in Int : n = Bit(p, i) /\ i + 1 \in Nat /\ (i \in Nat \/ p \in {<<"sel1">>, <<"sel2">>})
    BY <1>2, <2>1, WireIs DEF BaseName, BasePrefixes
  <2>3. Canon(n) = Base(p, i)
    BY <2>2, CanonBase
  <2>4. Stage(n) = Unit(p) /\ Place(n) = 4 * (i + 1)
    BY <2>2, BaseStage
  <2>5. Unit(p) \in Nat
    BY DEF Unit
  <2>. QED
    BY <2>2, <2>3, <2>4, <2>5, BaseNearer
<1>. QED
  BY <1>1, <1>2 DEF Known

(* Every name that a call drives is known. *)
LEMMA DrivenKnown ==
  ASSUME NEW o \in Options, NEW i \in 1 .. Len(Calls(o)), NEW n, Driven(Calls(o)[i], n)
  PROVE  Known(n)
<1>0. o \in Option
  BY OptionsAssumption
<1>1. PICK k \in ProperCalls : k = Calls(o)[i]
  <2>1. PICK t : t = Calls(o)
    OBVIOUS
  <2>2. t \in Seq(ProperCalls)
    BY <2>1, CallsProper
  <2>. QED
    BY <2>1, <2>2, ElementOfSeq
<1>2. PICK b : b \in First(k) .. (End(k) - 1) /\ n \in OutsAt(k, b)
  BY <1>1 DEF Driven
<1>3. b \in Nat
  BY <1>2, SizesAssumption DEF First
<1>4. CASE k.op \in {"add", "sub"}
  <2>1. ChainCall(k)
    BY <1>0, <1>1, <1>4, ChainCalls
  <2>2. PICK q \in ChainOuts : q = k.out
    BY <2>1 DEF ChainCall
  <2>3. \A w \in InnerWords : Known(Bit(Suffixed(q, w), b))
    BY <1>3 DEF Known, InnerName
  <2>4. Known(Bit(q, b))
    <3>1. CASE q = <<"s">>
      <4>1. Bit(q, b)[1] \in SinkPrefixes
        BY <3>1, BitIs DEF SinkPrefixes
      <4>. QED
        BY <4>1 DEF Known, IsSink
    <3>2. CASE q # <<"s">>
      <4>1. q \in BasePrefixes
        BY <3>2 DEF ChainOuts, BasePrefixes
      <4>. QED
        BY <1>3, <4>1 DEF Known, BaseName
    <3>. QED
      BY <3>1, <3>2
  <2>5. CASE k.op = "add"
    <3>1. n \in {Bit(q, b), CarryOut(k, b)} \/ \E w \in InnerWords : n = Bit(Suffixed(q, w), b)
      BY <1>2, <2>2, <2>5 DEF OutsAt, InnerWords
    <3>2. Known(CarryOut(k, b))
      <4>1. CarryOut(k, b) = k.cout \/ CarryOut(k, b) = Bit(Suffixed(q, "_c"), b)
        BY <2>2 DEF CarryOut, Suffixed
      <4>2. IsSink(k.cout)
        BY <2>1, <2>5 DEF ChainCall, IsSink
      <4>3. "_c" \in InnerWords
        BY DEF InnerWords
      <4>4. Known(k.cout)
        BY <4>2 DEF Known
      <4>. QED
        BY <2>3, <4>1, <4>3, <4>4
    <3>. QED
      BY <2>3, <2>4, <3>1, <3>2
  <2>6. CASE k.op = "sub"
    <3>1. n = Bit(q, b) \/ \E w \in InnerWords : n = Bit(Suffixed(q, w), b)
      BY <1>2, <2>2, <2>6 DEF OutsAt, InnerWords
    <3>. QED
      BY <2>3, <2>4, <3>1
  <2>. QED
    BY <1>4, <2>5, <2>6
<1>5. CASE k.op = "shift"
  <2>1. n = Bit(k.out, b)
    BY <1>2, <1>5 DEF OutsAt
  <2>2. CASE o.op # "absmin"
    <3>1. k.op = o.op /\ i = 1
      BY <1>0, <1>1, <2>2, OneCall
    <3>2. k.out = <<"out">>
      BY <1>0, <1>1, <1>5, <2>2, <3>1, OneCall, FieldsOf
    <3>3. n[1] \in SinkPrefixes
      BY <2>1, <3>2, BitIs DEF SinkPrefixes
    <3>. QED
      BY <3>3 DEF Known, IsSink
  <2>3. CASE o.op = "absmin"
    <3>1. i \in 1 .. 12 /\ k = AbsMinCalls[i]
      BY <1>1, <2>3, AbsMinAt DEF Calls
    <3>2. /\ AbsMinCalls[1].op = "ports" /\ AbsMinCalls[2].op = "extend" /\ AbsMinCalls[3].op = "zero"
          /\ AbsMinCalls[5].op = "add" /\ AbsMinCalls[7].op = "add"
          /\ AbsMinCalls[8].op = "sub" /\ AbsMinCalls[9].op = "sub" /\ AbsMinCalls[10].op = "sub"
          /\ AbsMinCalls[11].op = "select" /\ AbsMinCalls[12].op = "mux"
          /\ AbsMinCalls[4].out = fourX /\ AbsMinCalls[6].out = twoY
      BY AbsMinAt, FieldsOf
    <3>3. k.out \in {fourX, twoY}
      BY <1>5, <3>1, <3>2
    <3>4. k.out \in BasePrefixes
      BY <3>3 DEF BasePrefixes
    <3>. QED
      BY <1>3, <2>1, <3>4 DEF Known, BaseName
  <2>. QED
    BY <2>2, <2>3
<1>6. CASE k.op = "extend"
  <2>1. n \in {Bit(x, b), Bit(y, b)}
    BY <1>2, <1>6 DEF OutsAt
  <2>2. x \in BasePrefixes /\ y \in BasePrefixes
    BY DEF BasePrefixes
  <2>. QED
    BY <1>3, <2>1, <2>2 DEF Known, BaseName
<1>7. CASE k.op = "select"
  BY <1>2, <1>7 DEF OutsAt, Known, BaseName
<1>8. CASE k.op = "mux"
  <2>1. n = Bit(z, b)
    BY <1>2, <1>8 DEF OutsAt
  <2>2. n[1] \in SinkPrefixes
    BY <2>1, BitIs DEF SinkPrefixes, z
  <2>. QED
    BY <2>2 DEF Known, IsSink
<1>9. k.op \in {"add", "sub", "shift", "extend", "select", "mux"}
  BY <1>2 DEF OutsAt
<1>. QED
  BY <1>4, <1>5, <1>6, <1>7, <1>8, <1>9

LEMMA CreatedKnown ==
  ASSUME NEW o \in Options, NEW i \in 1 .. Len(Calls(o)), Sized(Calls(o)[i]), NEW n \in Created(Calls(o)[i])
  PROVE  Known(n)
<1>0. o \in Option
  BY OptionsAssumption
<1>1. Kind(o, i, n)
  BY CreatedKinds
<1>2. n \in PortsOf(o).ins => IsLeaf(n)
  BY <1>0, PortNames DEF IsLeaf
<1>3. (\E j \in 1 .. Len(Calls(o)) : Driven(Calls(o)[j], n)) => Known(n)
  BY DrivenKnown
<1>. QED
  BY <1>1, <1>2, <1>3 DEF Kind, Accounted, Known, IsLeaf

(* A node without a gate has no fanins. *)
Fields == {"type", "fanin", "gate", "val"}
Bare(c) == \A n \in DOMAIN c : DOMAIN c[n] = Fields /\ (c[n].gate = NoGate => c[n].fanin = <<>>)

LEMMA BareGate ==
  ASSUME NEW c, Bare(c), NEW out, NEW g \in Gates, NEW ins
  PROVE  Bare(SetGate(c, out, g, ins)) /\ DOMAIN SetGate(c, out, g, ins) = DOMAIN c
<1>1. PICK r : r = [c[out] EXCEPT !.fanin = ins, !.gate = g, !.val = Value(g, ValuesOf(c, ins))]
  OBVIOUS
<1>2. PICK d : d = [c EXCEPT ![out] = r]
  OBVIOUS
<1>3. SetGate(c, out, g, ins) = d
  BY <1>1, <1>2 DEF SetGate
<1>4. g # NoGate
  BY DEF Gates, NoGate
<1>5. out \in DOMAIN c => DOMAIN r = Fields /\ r.gate = g
  <2>. SUFFICES ASSUME out \in DOMAIN c PROVE DOMAIN r = Fields /\ r.gate = g
    OBVIOUS
  <2>1. DOMAIN c[out] = Fields
    BY DEF Bare
  <2>. QED
    BY <1>1, <2>1 DEF Fields
<1>6. DOMAIN d = DOMAIN c /\ \A n \in DOMAIN c : d[n] = IF n = out THEN r ELSE c[n]
  BY <1>2
<1>. QED
  BY <1>3, <1>4, <1>5, <1>6 DEF Bare

LEMMA BuildBare ==
  ASSUME Bare(circuit), Build
  PROVE  Bare(circuit') /\ DOMAIN circuit' = DOMAIN circuit
<1>1. "buf1" \in Gates /\ "or2" \in Gates /\ "and2" \in Gates /\ "xor3" \in Gates /\ "mux4" \in Gates
  BY DEF Gates
<1>2. \A c, out, g, ins : Bare(c) /\ g \in Gates =>
        Bare(SetGate(c, out, g, ins)) /\ DOMAIN SetGate(c, out, g, ins) = DOMAIN c
  BY BareGate
<1>3. CASE AddBit
  <2>1. PICK a, b, s, ab, axb, caxb, i1, i2, i3, i4, i5, c1, c2, c3, c4 :
          /\ c1 = SetGate(circuit, s, "xor3", i1) /\ c2 = SetGate(c1, ab, "and2", i2)
          /\ c3 = SetGate(c2, axb, "xor3", i3) /\ c4 = SetGate(c3, caxb, "and2", i4)
          /\ circuit' = SetGate(c4, a, "or2", i5)
    BY <1>3 DEF AddBit
  <2>. QED
    BY <1>1, <1>2, <2>1
<1>4. CASE SubBit
  <2>1. PICK n1, n2, n3, n4, n5, n6, n7, i1, i2, i3, i4, i5, i6, i7, c1, c2, c3, c4, c5, c6 :
          /\ c1 = SetGate(circuit, n1, "xor3", i1) /\ c2 = SetGate(c1, n2, "xor3", i2)
          /\ c3 = SetGate(c2, n3, "xor3", i3) /\ c4 = SetGate(c3, n4, "and2", i4)
          /\ c5 = SetGate(c4, n5, "xor3", i5) /\ c6 = SetGate(c5, n6, "and2", i6)
          /\ circuit' = SetGate(c6, n7, "or2", i7)
    BY <1>4 DEF SubBit
  <2>. QED
    BY <1>1, <1>2, <2>1
<1>5. CASE ShiftBit
  BY <1>1, <1>2, <1>5 DEF ShiftBit
<1>6. CASE ExtendBit
  BY <1>1, <1>2, <1>6 DEF ExtendBit
<1>7. CASE Select
  BY <1>1, <1>2, <1>7 DEF Select, SignOfEither
<1>8. CASE MuxBit
  BY <1>1, <1>2, <1>8 DEF MuxBit, Mux4
<1>. QED
  BY <1>3, <1>4, <1>5, <1>6, <1>7, <1>8 DEF Build

(* Next to what the file determines: every node has a known name, and fanins   *)
(* only with a gate.                                                         *)
CInv == FInv /\ Bare(circuit) /\ \A n \in DOMAIN circuit : Known(n)

LEMMA CInitially == Init => CInv
<1>. SUFFICES ASSUME Init PROVE CInv
  OBVIOUS
<1>1. FInv
  BY FInitially
<1>2. DOMAIN circuit = {}
  BY DEF Init
<1>. QED
  BY <1>1, <1>2 DEF CInv, Bare

LEMMA CreateAllKnown ==
  ASSUME CInv, CreateAll
  PROVE  Bare(circuit') /\ \A n \in DOMAIN circuit' : Known(n)
<1>1. FInv /\ TInv /\ Building /\ Sized(call)
  BY CreateAllSized DEF CInv, FInv, CreateAll
<1>2. PICK o \in Options : \E i \in 1 .. Len(Calls(o)) : call = Calls(o)[i]
  <2>1. option \in Options
    BY <1>1 DEF TInv, Progress, Building
  <2>. QED
    BY <1>1, <2>1, CallAt
<1>3. PICK k : k = call
  OBVIOUS
<1>4. PICK c : /\ c = CreateNodes(circuit, Created(k), given)
               /\ circuit' = [n \in DOMAIN c |->
                      IF n \in ZeroNodes(k) THEN ConstantNode("zero")
                      ELSE IF n \in OneNodes(k) THEN ConstantNode("one")
                      ELSE c[n]]
  BY <1>3 DEF CreateAll
<1>5. /\ DOMAIN circuit' = DOMAIN circuit \cup Created(k) /\ DOMAIN c = DOMAIN circuit \cup Created(k)
      /\ \A n \in DOMAIN c : (c[n] = circuit[n] /\ n \in DOMAIN circuit) \/ (\E v : c[n] = NewNode(v))
  BY <1>4 DEF CreateNodes
<1>6. \A n \in DOMAIN circuit' : Known(n)
  BY <1>1, <1>2, <1>3, <1>5, CreatedKnown DEF CInv
<1>7. /\ \A t : DOMAIN ConstantNode(t) = Fields /\ ConstantNode(t).fanin = <<>>
      /\ \A v : DOMAIN NewNode(v) = Fields /\ NewNode(v).fanin = <<>>
  BY DEF ConstantNode, NewNode, Fields
<1>8. ASSUME NEW n \in DOMAIN c
      PROVE  DOMAIN circuit'[n] = Fields /\ (circuit'[n].gate = NoGate => circuit'[n].fanin = <<>>)
  <2>1. circuit'[n] \in {ConstantNode("zero"), ConstantNode("one"), c[n]}
    BY <1>4, <1>8
  <2>2. DOMAIN c[n] = Fields /\ (c[n].gate = NoGate => c[n].fanin = <<>>)
    BY <1>5, <1>7, <1>8 DEF CInv, Bare
  <2>. QED
    BY <1>7, <2>1, <2>2
<1>. QED
  BY <1>4, <1>5, <1>6, <1>8 DEF Bare

LEMMA CSteps == CInv /\ [Next]_vars => CInv'
<1>. SUFFICES ASSUME CInv, [Next]_vars PROVE Bare(circuit') /\ \A n \in DOMAIN circuit' : Known(n)
  BY FSteps DEF CInv
<1>1. CASE CreateAll
  BY <1>1, CreateAllKnown
<1>2. CASE Build
  BY <1>2, BuildBare DEF CInv
<1>3. CASE Save
  <2>1. PICK ins, outs : circuit' = SetPorts(circuit, ins, outs)
    BY <1>3 DEF Save
  <2>2. DOMAIN circuit' = DOMAIN circuit /\ \A n \in DOMAIN circuit : \E t : circuit'[n] = [circuit[n] EXCEPT !.type = t]
    BY <2>1 DEF SetPorts
  <2>3. ASSUME NEW n \in DOMAIN circuit
        PROVE  DOMAIN circuit'[n] = Fields /\ (circuit'[n].gate = NoGate => circuit'[n].fanin = <<>>)
    <3>1. PICK r, t : r = circuit[n] /\ circuit'[n] = [r EXCEPT !.type = t]
      BY <2>2
    <3>2. DOMAIN r = Fields /\ (r.gate = NoGate => r.fanin = <<>>)
      BY <3>1 DEF CInv, Bare
    <3>3. DOMAIN circuit'[n] = Fields /\ circuit'[n].gate = r.gate /\ circuit'[n].fanin = r.fanin
      BY <3>1, <3>2 DEF Fields
    <3>. QED
      BY <3>2, <3>3
  <2>. QED
    BY <2>2, <2>3 DEF CInv, Bare
<1>4. CASE UNCHANGED circuit
  BY <1>4 DEF CInv
<1>. QED
  BY <1>1, <1>2, <1>3, <1>4 DEF Next, ReadOption, Exhaust, AssertFails, EndCall, Finish, Stopped, vars

(* A nonempty set of numbers has a least one. *)
LEMMA LeastNumber ==
  ASSUME NEW S \in SUBSET Nat, S # {}
  PROVE  \E m \in S : \A n \in S : m <= n
<1>. DEFINE Below == {ss \in Nat \X Nat : ss[1] < ss[2]}
<1>1. IsWellFoundedOn(Below, Nat)
  BY NatLessThanWellFounded DEF OpToRel
<1>2. \A m \in Nat, n \in Nat : ~ (<<m, n>> \in Below) => n <= m
  OBVIOUS
<1>. HIDE DEF Below
<1>3. PICK m \in S : \A n \in S : ~ (<<n, m>> \in Below)
  BY <1>1, WFMin
<1>. QED
  BY <1>2, <1>3

(* The nodes whose fanins are all in a set, and no set but the whole circuit   *)
(* holds just these.                                                         *)
FedBy(c, S) == {n \in DOMAIN c : Range(c[n].fanin) \subseteq S}
Founded(c) == \A S \in SUBSET DOMAIN c : FedBy(c, S) = S => S = DOMAIN c

(* A gate nearest to the inputs of those outside a set is fed by the set: what *)
(* it reads is nearer, and so inside.                                        *)
LEMMA CircuitFounded == CInv => Founded(circuit)
<1>. SUFFICES ASSUME CInv, NEW S \in SUBSET DOMAIN circuit, FedBy(circuit, S) = S, S # DOMAIN circuit
              PROVE  FALSE
  BY DEF Founded
<1>. DEFINE Out == DOMAIN circuit \ S
            Inside == {n \in Out : ~IsSink(n)}
<1>1. ASSUME NEW n \in Out
      PROVE  GateSound(circuit, n) /\ Known(n) /\ \E m \in Range(circuit[n].fanin) : m \notin S
  <2>1. n \notin FedBy(circuit, S)
    BY <1>1
  <2>2. PICK m \in Range(circuit[n].fanin) : m \notin S
    BY <1>1, <2>1 DEF FedBy
  <2>3. circuit[n].fanin # <<>>
    <3>1. Range(<<>>) = {}
      BY DEF Range
    <3>. QED
      BY <2>2, <3>1
  <2>4. circuit[n].gate # NoGate
    BY <1>1, <2>3 DEF CInv, Bare
  <2>. QED
    BY <1>1, <2>2, <2>4 DEF CInv, FInv, Sound
<1>2. ASSUME NEW n \in Out, NEW m \in Range(circuit[n].fanin), m \notin S
      PROVE  m \in Inside /\ ~IsLeaf(m)
  <2>1. Firm(circuit, m)
    BY <1>1, <1>2 DEF GateSound, Range
  <2>2. m \in Inside
    BY <1>2, <2>1 DEF Firm
  <2>3. GateSound(circuit, m)
    BY <1>1, <2>2
  <2>. QED
    BY <2>2, <2>3 DEF GateSound
<1>3. PICK n0 \in Out : TRUE
  OBVIOUS
<1>4. Inside # {}
  BY <1>1, <1>2, <1>3
<1>5. \A n \in Inside : ~IsLeaf(n) /\ Known(n) /\ ~IsSink(n) /\ n \in Out
  BY <1>1 DEF GateSound
<1>6. \A n \in Inside : AllNearer(Canon(n).fanin, n) /\ Stage(n) \in Nat /\ Place(n) \in Nat
  BY <1>5, CanonNearer
<1>. DEFINE Stages == {Stage(n) : n \in Inside}
<1>7. Stages \in SUBSET Nat /\ Stages # {}
  BY <1>4, <1>6
<1>8. PICK b \in Stages : \A e \in Stages : b <= e
  BY <1>7, LeastNumber
<1>. DEFINE Places == {Place(n) : n \in {m \in Inside : Stage(m) = b}}
<1>9. Places \in SUBSET Nat /\ Places # {}
  BY <1>6, <1>8
<1>10. PICK p \in Places : \A e \in Places : p <= e
  BY <1>9, LeastNumber
<1>11. PICK n \in Inside : Stage(n) = b /\ Place(n) = p
  BY <1>10
<1>12. PICK m \in Range(circuit[n].fanin) : m \notin S
  BY <1>1, <1>5, <1>11
<1>13. m \in Inside /\ ~IsLeaf(m)
  BY <1>2, <1>5, <1>11, <1>12
<1>14. circuit[n].fanin = Canon(n).fanin
  <2>1. Gate(circuit[n].gate, circuit[n].fanin) = Canon(n)
    BY <1>1, <1>5, <1>11 DEF GateSound
  <2>. QED
    BY <2>1 DEF Gate
<1>15. Nearer(m, n)
  BY <1>6, <1>11, <1>12, <1>14 DEF AllNearer, Range
<1>16. Stage(m) < b \/ (Stage(m) = b /\ Place(m) < p)
  BY <1>11, <1>13, <1>15 DEF Nearer
<1>17. Stage(m) \in Stages /\ (Stage(m) = b => Place(m) \in Places)
  BY <1>13
<1>18. b \in Nat /\ p \in Nat /\ Stage(m) \in Nat /\ Place(m) \in Nat
  BY <1>6, <1>7, <1>8, <1>9, <1>10, <1>13
<1>19. b <= Stage(m) /\ (Stage(m) = b => p <= Place(m))
  BY <1>8, <1>10, <1>17
<1>. QED
  BY <1>16, <1>18, <1>19

----------------------------------------------------------------------------
(* The levels *)

(* One after the other. *)
After(c, S) == IF S = DOMAIN c THEN S ELSE FedBy(c, S)
Ladder(c, f, k) == f[0] = {} /\ \A i \in 1 .. k : f[i] = After(c, f[i - 1])

LEMMA LadderThere ==
  ASSUME NEW c, NEW k \in Nat
  PROVE  \E f : Ladder(c, f, k)
<1>. DEFINE None == {i \in Nat : ~\E f : Ladder(c, f, i)}
<1>1. SUFFICES None = {}
  OBVIOUS
<1>2. SUFFICES ASSUME None # {} PROVE FALSE
  OBVIOUS
<1>3. None \in SUBSET Nat
  OBVIOUS
<1>4. PICK j \in None : \A i \in None : j <= i
  <2>. HIDE DEF None
  <2>. QED
    BY <1>2, <1>3, LeastNumber
<1>5. j # 0
  <2>1. Ladder(c, [i \in {0} |-> {}], 0)
    BY DEF Ladder
  <2>. QED
    BY <2>1
<1>6. j - 1 \in Nat /\ j - 1 \notin None
  BY <1>3, <1>4, <1>5
<1>7. PICK f : Ladder(c, f, j - 1)
  BY <1>6
<1>. DEFINE g == [i \in 0 .. j |-> IF i = j THEN After(c, f[j - 1]) ELSE f[i]]
<1>8. Ladder(c, g, j)
  <2>1. \A i \in 0 .. (j - 1) : g[i] = f[i]
    BY <1>6
  <2>2. g[j] = After(c, f[j - 1])
    BY <1>6
  <2>. HIDE DEF g
  <2>3. g[0] = {}
    BY <1>6, <1>7, <2>1 DEF Ladder
  <2>4. ASSUME NEW i \in 1 .. j PROVE g[i] = After(c, g[i - 1])
    <3>1. i - 1 \in 0 .. (j - 1)
      BY <1>6
    <3>2. CASE i = j
      BY <2>1, <2>2, <3>1, <3>2
    <3>3. CASE i # j
      <4>1. i \in 1 .. (j - 1) /\ i \in 0 .. (j - 1)
        BY <1>6, <3>3
      <4>. QED
        BY <1>7, <2>1, <3>1, <4>1 DEF Ladder
    <3>. QED
      BY <3>2, <3>3
  <2>. QED
    BY <2>3, <2>4 DEF Ladder
<1>. QED
  BY <1>4, <1>8

(* The fold of Levels climbs the ladder. *)
LevelEq(it, c, s) ==
  it = [S \in SUBSET DOMAIN s |->
          IF S = {} THEN {} ELSE LET m == Max(S) IN After(c, it[S \ {m}])]

LEMMA GreatestNumber ==
  ASSUME NEW k \in Nat, NEW S \in SUBSET (1 .. k), S # {}
  PROVE  Max(S) \in S
<1>. DEFINE T == {k - i : i \in S}
<1>1. T \in SUBSET Nat /\ T # {}
  <2>1. \A i \in S : k - i \in Nat
    OBVIOUS
  <2>. QED
    BY <2>1
<1>2. PICK t \in T : \A u \in T : t <= u
  BY <1>1, LeastNumber
<1>3. PICK m \in S : t = k - m
  BY <1>2
<1>4. \A n \in S : m >= n
  <2>1. \A n \in S : k - m <= k - n
    BY <1>2, <1>3
  <2>. QED
    BY <2>1
<1>. QED
  BY <1>4 DEF Max

LEMMA LadderSolves ==
  ASSUME NEW c, NEW k \in Nat, NEW f, Ladder(c, f, k), NEW s, DOMAIN s = 1 .. k
  PROVE  LevelEq([S \in SUBSET DOMAIN s |-> f[Cardinality(S)]], c, s)
<1>. DEFINE g == [S \in SUBSET DOMAIN s |-> f[Cardinality(S)]]
<1>1. \A S \in SUBSET (1 .. k) : g[S] = f[Cardinality(S)]
  OBVIOUS
<1>2. g[{}] = {}
  BY <1>1, FS_EmptySet DEF Ladder
<1>3. IsFiniteSet(1 .. k) /\ Cardinality(1 .. k) = k
  BY FS_Interval
<1>. HIDE DEF g
<1>4. ASSUME NEW S \in SUBSET (1 .. k), S # {}, NEW m, m = Max(S)
      PROVE  g[S] = After(c, g[S \ {m}])
  <2>1. m \in S
    BY <1>4, GreatestNumber
  <2>2. IsFiniteSet(S) /\ Cardinality(S) <= k /\ Cardinality(S) \in Nat
    <3>1. IsFiniteSet(S) /\ Cardinality(S) <= Cardinality(1 .. k)
      BY <1>3, FS_Subset
    <3>. QED
      BY <1>3, <3>1, FS_CardinalityType
  <2>3. PICK T \in SUBSET (1 .. k) : T = S \ {m}
    OBVIOUS
  <2>4. Cardinality(T) = Cardinality(S) - 1
    BY <2>1, <2>2, <2>3, FS_RemoveElement
  <2>5. Cardinality(T) \in Nat
    <3>1. IsFiniteSet(T)
      BY <1>3, FS_Subset
    <3>. QED
      BY <3>1, FS_CardinalityType
  <2>6. Cardinality(S) \in 1 .. k
    BY <2>2, <2>4, <2>5
  <2>7. f[Cardinality(S)] = After(c, f[Cardinality(S) - 1])
    BY <2>6 DEF Ladder
  <2>. QED
    BY <1>1, <2>3, <2>4, <2>7
<1>5. g = [S \in SUBSET DOMAIN s |-> IF S = {} THEN {} ELSE LET m == Max(S) IN After(c, g[S \ {m}])]
  <2>1. DOMAIN g = SUBSET (1 .. k) /\ g = [S \in DOMAIN g |-> g[S]]
    BY DEF g
  <2>. QED
    BY <1>2, <1>4, <2>1
<1>. QED
  BY <1>5 DEF LevelEq, g

LEMMA SolutionIsLadder ==
  ASSUME NEW c, NEW k \in Nat, NEW f, Ladder(c, f, k), NEW s, DOMAIN s = 1 .. k, NEW it, LevelEq(it, c, s)
  PROVE  it[DOMAIN s] = f[k]
<1>. DEFINE Differ == {j \in 0 .. k : it[1 .. j] # f[j]}
<1>1. ASSUME NEW j \in 0 .. k
      PROVE  it[1 .. j] = IF j = 0 THEN {} ELSE After(c, it[1 .. (j - 1)])
  <2>. DEFINE S == 1 .. j
  <2>1. S \in SUBSET DOMAIN s
    OBVIOUS
  <2>2. it[S] = IF S = {} THEN {} ELSE LET m == Max(S) IN After(c, it[S \ {m}])
    BY <2>1 DEF LevelEq
  <2>3. CASE j = 0
    BY <2>2, <2>3
  <2>4. CASE j # 0
    <3>1. S # {} /\ Max(S) = j
      <4>1. j \in Nat /\ j >= 1
        BY <2>4
      <4>2. j \in S
        BY <4>1
      <4>3. S # {}
        BY <4>2
      <4>4. \A n \in S : n \in Int /\ j >= n
        BY <4>1
      <4>. HIDE DEF S
      <4>5. \A m \in S : (\A n \in S : m >= n) => m = j
        BY <4>1, <4>2, <4>4
      <4>. QED
        BY <4>2, <4>3, <4>4, <4>5 DEF Max
    <3>2. S \ {j} = 1 .. (j - 1)
      OBVIOUS
    <3>. HIDE DEF S
    <3>3. it[S] = After(c, it[1 .. (j - 1)])
      BY <2>2, <3>1, <3>2
    <3>. QED
      BY <2>4, <3>3 DEF S
  <2>. QED
    BY <2>3, <2>4
<1>2. ASSUME Differ # {} PROVE FALSE
  <2>0. Differ \in SUBSET Nat
    OBVIOUS
  <2>1. PICK j \in Differ : \A i \in Differ : j <= i
    <3>. HIDE DEF Differ
    <3>. QED
      BY <1>2, <2>0, LeastNumber
  <2>2. j \in 0 .. k /\ it[1 .. j] # f[j]
    OBVIOUS
  <2>3. CASE j = 0
    BY <1>1, <2>2, <2>3 DEF Ladder
  <2>4. CASE j # 0
    <3>1. j - 1 \in 0 .. k /\ j - 1 \notin Differ /\ j \in 1 .. k
      BY <2>1, <2>2, <2>4
    <3>2. it[1 .. (j - 1)] = f[j - 1]
      BY <3>1
    <3>. QED
      BY <1>1, <2>2, <2>4, <3>1, <3>2 DEF Ladder
  <2>. QED
    BY <2>3, <2>4
<1>. QED
  BY <1>2

LEMMA LevelsAreLadder ==
  ASSUME NEW k \in Nat, NEW f, Ladder(circuit, f, k)
  PROVE  Levels(k) = f[k]
<1>. DEFINE s == [i \in 1 .. k |-> i]
            it == CHOOSE it : LevelEq(it, circuit, s)
<1>1. DOMAIN s = 1 .. k
  OBVIOUS
<1>2. Levels(k) = it[DOMAIN s]
  BY DEF Levels, FoldLeft, MapThenFoldSet, LevelEq, After, FedBy
<1>. HIDE DEF s
<1>3. LevelEq(it, circuit, s)
  BY <1>1, LadderSolves
<1>. QED
  BY <1>1, <1>2, <1>3, SolutionIsLadder

(* Every rung but the whole circuit has a node that the one below has not. *)
LEMMA LadderFull ==
  ASSUME NEW c, IsFiniteSet(DOMAIN c), Founded(c), NEW k, k = Cardinality(DOMAIN c), NEW f, Ladder(c, f, k)
  PROVE  f[k] = DOMAIN c
<1>. DEFINE D == DOMAIN c
            Grows(i) == f[i] \subseteq D /\ f[i] \subseteq After(c, f[i])
            Large(i) == f[i] = D \/ Cardinality(f[i]) >= i
            Bad == {i \in 0 .. k : ~(Grows(i) /\ Large(i))}
<1>1. k \in Nat
  BY FS_CardinalityType
<1>2. \A S, T : S \subseteq T => FedBy(c, S) \subseteq FedBy(c, T)
  BY DEF FedBy
<1>3. Grows(0) /\ Large(0)
  <2>1. f[0] = {} /\ Cardinality({}) = 0
    BY FS_EmptySet DEF Ladder
  <2>. QED
    BY <2>1
<1>4. ASSUME NEW i \in 0 .. (k - 1), Grows(i), Large(i) PROVE Grows(i + 1) /\ Large(i + 1)
  <2>1. i + 1 \in 1 .. k /\ (i + 1) - 1 = i /\ i \in Nat
    BY <1>1
  <2>2. f[i + 1] = After(c, f[i])
    BY <2>1 DEF Ladder
  <2>3. CASE f[i] = D
    BY <2>2, <2>3 DEF After
  <2>4. CASE f[i] # D
    <3>1. f[i + 1] = FedBy(c, f[i])
      BY <2>2, <2>4 DEF After
    <3>2. f[i + 1] \subseteq D
      BY <3>1 DEF FedBy
    <3>3. f[i] \subseteq f[i + 1]
      BY <1>4, <2>2
    <3>4. f[i + 1] \subseteq After(c, f[i + 1])
      BY <1>2, <3>1, <3>3 DEF After
    <3>5. f[i] # f[i + 1]
      BY <1>4, <2>4, <3>1 DEF Founded
    <3>6. PICK S, T : S = f[i] /\ T = f[i + 1]
      OBVIOUS
    <3>7. T \subseteq D /\ S \subseteq T /\ S # T /\ IsFiniteSet(D)
      BY <3>2, <3>3, <3>5, <3>6
    <3>8. IsFiniteSet(T) /\ Cardinality(T) \in Nat
      BY <3>7, FS_Subset, FS_CardinalityType
    <3>9. IsFiniteSet(S) /\ Cardinality(S) <= Cardinality(T) /\ Cardinality(S) # Cardinality(T)
      BY <3>7, <3>8, FS_Subset
    <3>10. Cardinality(S) \in Nat
      BY <3>9, FS_CardinalityType
    <3>11. Cardinality(S) >= i
      BY <1>4, <2>4, <3>6
    <3>12. Cardinality(T) >= i + 1
      BY <2>1, <3>8, <3>9, <3>10, <3>11
    <3>. QED
      BY <3>2, <3>4, <3>6, <3>12
  <2>. QED
    BY <2>3, <2>4
<1>. HIDE DEF Grows, Large
<1>5. ASSUME Bad # {} PROVE FALSE
  <2>1. Bad \in SUBSET Nat
    OBVIOUS
  <2>2. PICK j \in Bad : \A i \in Bad : j <= i
    <3>. HIDE DEF Bad
    <3>. QED
      BY <1>5, <2>1, LeastNumber
  <2>3. j # 0 /\ j \in 0 .. k
    BY <1>3
  <2>4. j - 1 \in 0 .. (k - 1) /\ j - 1 \in 0 .. k /\ j - 1 \notin Bad /\ (j - 1) + 1 = j
    BY <1>1, <2>2, <2>3
  <2>5. Grows(j - 1) /\ Large(j - 1)
    BY <2>4
  <2>6. Grows((j - 1) + 1) /\ Large((j - 1) + 1)
    BY <1>4, <2>4, <2>5
  <2>. QED
    BY <2>2, <2>4, <2>6
<1>6. Grows(k) /\ Large(k)
  BY <1>1, <1>5
<1>7. CASE Cardinality(f[k]) >= k
  <2>1. PICK S : S = f[k]
    OBVIOUS
  <2>2. S \subseteq D
    BY <1>6, <2>1 DEF Grows
  <2>3. Cardinality(S) <= Cardinality(D) /\ IsFiniteSet(S) /\ (Cardinality(D) = Cardinality(S) => D = S)
    BY <2>2, FS_Subset
  <2>4. Cardinality(S) \in Nat
    BY <2>3, FS_CardinalityType
  <2>. QED
    BY <1>1, <1>7, <2>1, <2>3, <2>4
<1>. QED
  BY <1>6, <1>7 DEF Large

(* node.h, circuit.cpp:119-196: what is written is combinational, whatever     *)
(* modules were built into the circuit before: no gate comes to depend on       *)
(* itself when names are shared and gates are built again over old ones.        *)
THEOREM NetlistIsCombinational == Spec => []Combinational
<1>1. CInv => Combinational
  <2>. SUFFICES ASSUME CInv PROVE Levels(Cardinality(DOMAIN circuit)) = DOMAIN circuit
    BY DEF Combinational
  <2>1. IsFiniteSet(DOMAIN circuit) /\ Founded(circuit)
    BY CircuitFounded DEF CInv, FInv
  <2>2. PICK k \in Nat : k = Cardinality(DOMAIN circuit)
    BY <2>1, FS_CardinalityType
  <2>3. PICK f : Ladder(circuit, f, k)
    BY LadderThere
  <2>4. f[k] = DOMAIN circuit
    BY <2>1, <2>2, <2>3, LadderFull
  <2>5. Levels(k) = f[k]
    BY <2>3, LevelsAreLadder
  <2>. QED
    BY <2>2, <2>4, <2>5
<1>. QED
  BY <1>1, CInitially, CSteps, PTL DEF Spec

----------------------------------------------------------------------------
(* Memory *)

(* The circuit has nodes of modules with bits only. *)
EInv ==
  /\ CInv /\ DOMAIN circuit \subseteq ModuleNodes
  /\ phase = "exhausted" => NoBits(option)
  /\ phase = "aborted" => option.op = "shift" /\ option.bits + option.shift >= UintMod

LEMMA CallNodes ==
  ASSUME TInv, Building, ~NoBits(option)
  PROVE  Created(call) \subseteq ModuleNodes
<1>1. option \in Options /\ Done + 1 \in 1 .. Len(Calls(option)) /\ call = Calls(option)[Done + 1]
  BY CallAt DEF TInv, Progress, Building
<1>2. Created(call) \subseteq CreatedFor(option)
  BY <1>1 DEF CreatedFor
<1>. QED
  BY <1>1, <1>2 DEF ModuleNodes

(* Where the sum of a shifter's widths does not wrap, its assert holds: all its  *)
(* outputs have been created.  The widths of abs(min(5x,3y)) are small.         *)
LEMMA AssertWraps ==
  ASSUME TInv, AssertFails
  PROVE  option.op = "shift" /\ option.bits + option.shift >= UintMod
<1>1. Building /\ bit # NoBit /\ call.op = "shift" /\ bit < End(call) /\ Bit(call.out, bit) \notin DOMAIN circuit
  BY DEF AssertFails, At
<1>2. /\ option \in Option /\ Done + 1 \in 1 .. Len(Calls(option)) /\ call = Calls(option)[Done + 1] /\ Done \in Nat
  BY <1>1, CallAt
<1>3. PICK k \in ProperCalls : k = call
  BY <1>1, CallIsProper DEF TInv
<1>4. k.bits \in 0 .. (UintMod - 1) /\ k.shift \in 0 .. (UintMod - 1) /\ k.bits + k.shift \in Nat
  BY SizesAssumption DEF ProperCalls, Call
<1>5. k.bits + k.shift >= UintMod
  <2>. SUFFICES ASSUME k.bits + k.shift < UintMod PROVE FALSE
    BY <1>4, SizesAssumption
  <2>1. First(k) = 0 /\ End(k) = Outputs(k) /\ Outputs(k) \in Nat
    BY <1>1, <1>3, <1>4, ShiftLoop, UnsignedSum
  <2>2. bit \in First(k) .. End(k) /\ Created(k) \subseteq DOMAIN circuit
    BY <1>1, <1>3 DEF TInv
  <2>3. Bit(k.out, bit) \in Bits(k.out, Outputs(k))
    BY <1>1, <1>3, <2>1, <2>2, BitsHave
  <2>4. Bit(k.out, bit) \in Created(k)
    BY <1>1, <1>3, <2>3 DEF Created
  <2>. QED
    BY <1>1, <1>3, <2>2, <2>4
<1>6. CASE option.op = "absmin"
  <2>1. Calls(option) = AbsMinCalls /\ Done + 1 \in 1 .. 12 /\ k = AbsMinCalls[Done + 1]
    BY <1>2, <1>3, <1>6, AbsMinAt DEF Calls
  <2>2. \A i \in 1 .. 12 : AbsMinCalls[i].op = "shift" => AbsMinCalls[i].bits = Width /\ AbsMinCalls[i].shift \in {1, 2}
    BY AbsMinAt, FieldsOf
  <2>3. k.bits = Width /\ k.shift \in {1, 2}
    BY <1>1, <1>3, <2>1, <2>2
  <2>. QED
    BY <1>5, <2>3, SizesAssumption DEF Width
<1>7. CASE option.op # "absmin"
  <2>1. Done + 1 = 1 /\ k = Calls(option)[1] /\ option.op = "shift"
    BY <1>1, <1>2, <1>3, <1>7, OneCall
  <2>2. k.bits = option.bits /\ k.shift = option.shift
    BY <1>2, <1>7, <2>1, OneCall, FieldsOf
  <2>. QED
    BY <1>5, <2>1, <2>2
<1>. QED
  BY <1>6, <1>7

LEMMA ESteps ==
  ASSUME Roomy, EInv, [Next]_vars
  PROVE  EInv'
<1>1. CInv' /\ FInv /\ TInv
  BY CSteps DEF EInv, CInv, FInv
<1>2. CASE CreateAll
  <2>1. Building /\ option' = option /\ phase' = phase /\ phase = "build"
    BY <1>2 DEF CreateAll, Building
  <2>2. ~NoBits(option)
    <3>. SUFFICES ASSUME NoBits(option) PROVE FALSE
      OBVIOUS
    <3>1. Sized(call)
      BY <1>1, <1>2, CreateAllSized
    <3>2. option \in Option /\ Done + 1 \in 1 .. Len(Calls(option)) /\ call = Calls(option)[Done + 1] /\ Done \in Nat
      BY <1>1, <2>1, CallAt
    <3>3. option.op = "add" /\ option.bits = 0 /\ option.op # "absmin"
      BY DEF NoBits
    <3>4. /\ Len(Calls(option)) = 1
          /\ Calls(option)[1] = CallOf("add", <<"a">>, <<"b">>, <<"s">>, Wire("cin"), Wire("cout"), option.bits, 0)
      BY <3>2, <3>3, OneCall
    <3>5. Done + 1 = 1
      BY <3>2, <3>4
    <3>6. call.op = "add" /\ call.bits = 0
      BY <3>2, <3>3, <3>4, <3>5, FieldsOf
    <3>. QED
      BY <3>1, <3>6 DEF Sized
  <2>3. Created(call) \subseteq ModuleNodes
    BY <1>1, <2>1, <2>2, CallNodes
  <2>4. DOMAIN circuit' = DOMAIN circuit \cup Created(call)
    BY <1>2 DEF CreateAll, CreateNodes
  <2>. QED
    BY <1>1, <2>1, <2>3, <2>4 DEF EInv
<1>3. CASE Exhaust
  <2>1. Building /\ option' = option /\ circuit' = circuit /\ phase' = "exhausted"
    BY <1>3 DEF Exhaust
  <2>2. NoBits(option)
    <3>. SUFFICES ASSUME ~NoBits(option) PROVE FALSE
      OBVIOUS
    <3>1. PICK S : S = DOMAIN circuit \cup Created(call)
      OBVIOUS
    <3>2. S \subseteq ModuleNodes
      BY <1>1, <2>1, <3>1, CallNodes DEF EInv
    <3>3. Cardinality(S) <= Cardinality(ModuleNodes) /\ IsFiniteSet(S)
      BY <3>2, FS_Subset DEF Roomy
    <3>4. Cardinality(S) \in Nat /\ Cardinality(ModuleNodes) \in Nat
      BY <3>3, FS_CardinalityType DEF Roomy
    <3>5. Cardinality(S) > Memory
      BY <1>3, <3>1 DEF Exhaust
    <3>. QED
      BY <3>3, <3>4, <3>5, SizesAssumption DEF Roomy
  <2>. QED
    BY <1>1, <2>1, <2>2 DEF EInv
<1>4. CASE Build
  <2>1. DOMAIN circuit' = DOMAIN circuit
    BY <1>4, BuildBare DEF EInv, CInv
  <2>2. phase' = phase /\ option' = option
    BY <1>4 DEF Build, AddBit, SubBit, ShiftBit, ExtendBit, Select, MuxBit, Advance
  <2>. QED
    BY <1>1, <2>1, <2>2 DEF EInv
<1>5. CASE Save
  <2>1. DOMAIN circuit' = DOMAIN circuit /\ phase' = "options"
    BY <1>5 DEF Save, SetPorts
  <2>. QED
    BY <1>1, <2>1 DEF EInv
<1>6. ASSUME NEW o \in Options, ReadOption(o) PROVE EInv'
  <2>1. circuit' = circuit /\ phase' = "build"
    BY <1>6 DEF ReadOption
  <2>. QED
    BY <1>1, <2>1 DEF EInv
<1>7. CASE Finish
  <2>1. circuit' = circuit /\ phase' = "done"
    BY <1>7 DEF Finish
  <2>. QED
    BY <1>1, <2>1 DEF EInv
<1>8. CASE EndCall \/ UNCHANGED vars
  <2>1. circuit' = circuit /\ phase' = phase /\ option' = option
    BY <1>8 DEF EndCall, vars, control
  <2>. QED
    BY <1>1, <2>1 DEF EInv
<1>9. CASE AssertFails
  <2>1. circuit' = circuit /\ phase' = "aborted" /\ option' = option
    BY <1>9 DEF AssertFails
  <2>2. option.op = "shift" /\ option.bits + option.shift >= UintMod
    BY <1>1, <1>9, AssertWraps
  <2>. QED
    BY <1>1, <2>1, <2>2 DEF EInv
<1>. QED
  BY <1>2, <1>3, <1>4, <1>5, <1>6, <1>7, <1>8, <1>9 DEF Next, Stopped

(* modules.cpp:32, 249: where every module with bits fits into memory, next to   *)
(* all the others, only the adder of no bits runs out of it: its loop over the   *)
(* numBits - 1 carries asks for UINT_MAX of them.  And only a shifter the sum of  *)
(* whose widths wraps fails an assert, whatever was built before.               *)
THEOREM OnlyWrapsStop ==
  ASSUME Roomy
  PROVE  Spec => []OnlyWrapsFail
<1>1. Init => EInv
  <2>. SUFFICES ASSUME Init PROVE EInv
    OBVIOUS
  <2>1. DOMAIN circuit = {} /\ phase = "options"
    BY DEF Init
  <2>. QED
    BY <2>1, CInitially DEF EInv
<1>2. EInv /\ [Next]_vars => EInv'
  BY ESteps
<1>3. EInv => OnlyWrapsFail
  BY DEF EInv, OnlyWrapsFail
<1>. QED
  BY <1>1, <1>2, <1>3, PTL DEF Spec

----------------------------------------------------------------------------
(* Numbers *)

(* Powers of two, which count subsets, double. *)
LEMMA PowerStep ==
  ASSUME NEW k \in Nat
  PROVE  2 ^ k \in Nat /\ 2 ^ k >= 1 /\ 2 ^ (k + 1) \in Nat /\ 2 ^ (k + 1) = 2 * 2 ^ k
<1>1. \A m \in Nat : IsFiniteSet(1 .. m) /\ Cardinality(1 .. m) = m
  BY FS_Interval
<1>2. \A m \in Nat : IsFiniteSet(SUBSET (1 .. m)) /\ Cardinality(SUBSET (1 .. m)) = 2 ^ m
  BY <1>1, FS_SUBSET
<1>. DEFINE A == SUBSET (1 .. k)
            B == {T \cup {k + 1} : T \in A}
            f == [T \in A |-> T \cup {k + 1}]
<1>3. IsFiniteSet(A) /\ Cardinality(A) = 2 ^ k
  BY <1>2
<1>4. f \in Bijection(A, B)
  <2>1. \A S, T \in A : f[S] = f[T] => S = T
    <3>1. \A S \in A : (S \cup {k + 1}) \ {k + 1} = S
      OBVIOUS
    <3>. QED
      BY <3>1
  <2>2. f \in [A -> B] /\ \A U \in B : \E T \in A : f[T] = U
    OBVIOUS
  <2>3. f \in [A -> B]
    BY <2>2
  <2>. HIDE DEF A, B, f
  <2>4. f \in Injection(A, B)
    BY <2>1, <2>3 DEF Injection, IsInjective
  <2>5. f \in Surjection(A, B)
    BY <2>2 DEF Surjection
  <2>. QED
    BY <2>4, <2>5 DEF Bijection
<1>5. IsFiniteSet(B) /\ Cardinality(B) = 2 ^ k
  <2>. HIDE DEF A, B, f
  <2>. QED
    BY <1>3, <1>4, FS_Bijection DEF ExistsBijection
<1>6. A \cap B = {}
  <2>1. \A T \in A : k + 1 \notin T
    OBVIOUS
  <2>2. \A T \in B : k + 1 \in T
    OBVIOUS
  <2>. HIDE DEF A, B
  <2>. QED
    BY <2>1, <2>2
<1>7. A \cup B = SUBSET (1 .. (k + 1))
  <2>1. A \cup B \subseteq SUBSET (1 .. (k + 1))
    <3>1. k + 1 \in 1 .. (k + 1) /\ \A i \in 1 .. k : i \in 1 .. (k + 1)
      OBVIOUS
    <3>2. \A T \in A : T \in SUBSET (1 .. (k + 1)) /\ T \cup {k + 1} \in SUBSET (1 .. (k + 1))
      BY <3>1
    <3>3. A \subseteq SUBSET (1 .. (k + 1))
      BY <3>1
    <3>4. \A U \in B : U \in SUBSET (1 .. (k + 1))
      BY <3>1
    <3>. HIDE DEF A, B
    <3>. QED
      BY <3>3, <3>4
  <2>2. ASSUME NEW T \in SUBSET (1 .. (k + 1)) PROVE T \in A \cup B
    <3>1. CASE k + 1 \in T
      <4>1. PICK U : U = T \ {k + 1}
        OBVIOUS
      <4>2. T = U \cup {k + 1}
        BY <3>1, <4>1
      <4>3. \A e \in U : e \in 1 .. k
        BY <4>1
      <4>4. U \in A
        BY <4>3
      <4>. QED
        BY <4>2, <4>4
    <3>2. CASE k + 1 \notin T
      BY <3>2
    <3>. QED
      BY <3>1, <3>2
  <2>. HIDE DEF A, B
  <2>. QED
    BY <2>1, <2>2
<1>8. Cardinality(A \cup B) = 2 ^ k + 2 ^ k - 0
  <2>1. Cardinality(A \cap B) = 0
    BY <1>6, FS_EmptySet
  <2>. HIDE DEF A, B
  <2>. QED
    BY <1>3, <1>5, <2>1, FS_Union
<1>9. 2 ^ k \in Nat
  <2>. HIDE DEF A
  <2>. QED
    BY <1>3, FS_CardinalityType
<1>10. 2 ^ k # 0
  <2>1. {} \in A
    OBVIOUS
  <2>. HIDE DEF A
  <2>. QED
    BY <1>3, <2>1, FS_EmptySet
<1>11. k + 1 \in Nat
  OBVIOUS
<1>12. Cardinality(A \cup B) = 2 ^ (k + 1)
  <2>. HIDE DEF A, B
  <2>. QED
    BY <1>2, <1>7, <1>11
<1>. HIDE DEF A, B
<1>13. PICK p \in Nat : p = 2 ^ k
  BY <1>9
<1>14. p + p - 0 = 2 * p /\ (p # 0 => p >= 1)
  OBVIOUS
<1>. QED
  BY <1>8, <1>10, <1>12, <1>13, <1>14

(* The fold of +, for which the order its elements are chosen in is open: it    *)
(* counts the units that all elements have together.                          *)
UnitsOf(f, S) == UNION {{i} \X (0 .. (f[i] - 1)) : i \in S}
SumEq(it, f) ==
  it = [S \in SUBSET DOMAIN f |->
          IF S = {} THEN 0 ELSE LET m == CHOOSE j \in S : TRUE IN f[m] + it[S \ {m}]]

LEMMA UnitsFinite ==
  ASSUME NEW f, NEW S, IsFiniteSet(S), \A i \in S : f[i] \in Nat
  PROVE  IsFiniteSet(UnitsOf(f, S))
<1>. DEFINE R == {{i} \X (0 .. (f[i] - 1)) : i \in S}
            h == [i \in S |-> {i} \X (0 .. (f[i] - 1))]
<1>1. h \in Surjection(S, R)
  <2>1. h \in [S -> R] /\ \A r \in R : \E i \in S : h[i] = r
    OBVIOUS
  <2>. HIDE DEF h, R
  <2>. QED
    BY <2>1 DEF Surjection
<1>2. IsFiniteSet(R)
  <2>. HIDE DEF h, R
  <2>. QED
    BY <1>1, FS_Surjection
<1>3. ASSUME NEW i \in S PROVE IsFiniteSet({i} \X (0 .. (f[i] - 1)))
  <2>1. f[i] - 1 \in Int /\ 0 \in Int
    OBVIOUS
  <2>2. IsFiniteSet(0 .. (f[i] - 1))
    BY <2>1, FS_Interval
  <2>3. IsFiniteSet({i})
    BY FS_Singleton
  <2>. QED
    BY <2>2, <2>3, FS_Product
<1>4. \A r \in R : IsFiniteSet(r)
  BY <1>3
<1>5. UnitsOf(f, S) = UNION R
  BY DEF UnitsOf
<1>. HIDE DEF R
<1>. QED
  BY <1>2, <1>4, <1>5, FS_UNION

LEMMA UnitsStep ==
  ASSUME NEW f, NEW S, IsFiniteSet(S), \A i \in S : f[i] \in Nat, NEW m \in S
  PROVE  /\ Cardinality(UnitsOf(f, S)) = f[m] + Cardinality(UnitsOf(f, S \ {m}))
         /\ Cardinality(UnitsOf(f, S)) \in Nat /\ Cardinality(UnitsOf(f, S \ {m})) \in Nat
<1>. DEFINE T == S \ {m}
            P == {m} \X (0 .. (f[m] - 1))
<1>1. IsFiniteSet(T)
  BY FS_RemoveElement
<1>2. IsFiniteSet(UnitsOf(f, T)) /\ IsFiniteSet(UnitsOf(f, S))
  BY <1>1, UnitsFinite
<1>3. IsFiniteSet(P) /\ Cardinality(P) = f[m]
  <2>1. f[m] - 1 \in Int /\ 0 \in Int /\ f[m] \in Nat
    OBVIOUS
  <2>2. IsFiniteSet(0 .. (f[m] - 1)) /\ Cardinality(0 .. (f[m] - 1)) = f[m]
    <3>1. Cardinality(0 .. (f[m] - 1)) = IF 0 > f[m] - 1 THEN 0 ELSE (f[m] - 1) - 0 + 1
      BY <2>1, FS_Interval
    <3>. QED
      BY <2>1, <3>1, FS_Interval
  <2>3. IsFiniteSet({m}) /\ Cardinality({m}) = 1
    BY FS_Singleton
  <2>4. Cardinality(P) = 1 * f[m]
    BY <2>2, <2>3, FS_Product
  <2>5. IsFiniteSet(P)
    BY <2>2, <2>3, FS_Product
  <2>. QED
    BY <2>1, <2>4, <2>5
<1>4. UnitsOf(f, S) = P \cup UnitsOf(f, T)
  BY DEF UnitsOf
<1>5. P \cap UnitsOf(f, T) = {}
  <2>1. \A e \in P : e[1] = m
    OBVIOUS
  <2>2. \A e \in UnitsOf(f, T) : e[1] # m
    BY DEF UnitsOf
  <2>. HIDE DEF P, T
  <2>. QED
    BY <2>1, <2>2
<1>. HIDE DEF P
<1>6. Cardinality(P \cap UnitsOf(f, T)) = 0
  BY <1>5, FS_EmptySet
<1>7. Cardinality(P \cup UnitsOf(f, T)) = Cardinality(P) + Cardinality(UnitsOf(f, T)) - Cardinality(P \cap UnitsOf(f, T))
  BY <1>2, <1>3, FS_Union
<1>8. Cardinality(UnitsOf(f, T)) \in Nat /\ Cardinality(UnitsOf(f, S)) \in Nat
  BY <1>2, FS_CardinalityType
<1>. QED
  BY <1>3, <1>4, <1>6, <1>7, <1>8

LEMMA CountSolves ==
  ASSUME NEW f, IsFiniteSet(DOMAIN f), \A i \in DOMAIN f : f[i] \in Nat
  PROVE  SumEq([S \in SUBSET DOMAIN f |-> Cardinality(UnitsOf(f, S))], f)
<1>. DEFINE g == [S \in SUBSET DOMAIN f |-> Cardinality(UnitsOf(f, S))]
<1>1. g[{}] = 0
  <2>1. UnitsOf(f, {}) = {}
    BY DEF UnitsOf
  <2>. QED
    BY <2>1, FS_EmptySet
<1>2. ASSUME NEW S \in SUBSET DOMAIN f, S # {}, NEW m, m = CHOOSE j \in S : TRUE
      PROVE  g[S] = f[m] + g[S \ {m}]
  <2>1. m \in S
    BY <1>2
  <2>2. IsFiniteSet(S)
    BY FS_Subset
  <2>3. Cardinality(UnitsOf(f, S)) = f[m] + Cardinality(UnitsOf(f, S \ {m}))
    BY <2>1, <2>2, UnitsStep
  <2>. QED
    BY <2>3
<1>3. DOMAIN g = SUBSET DOMAIN f /\ g = [S \in DOMAIN g |-> g[S]]
  OBVIOUS
<1>. HIDE DEF g
<1>4. g = [S \in SUBSET DOMAIN f |-> IF S = {} THEN 0 ELSE LET m == CHOOSE j \in S : TRUE IN f[m] + g[S \ {m}]]
  BY <1>1, <1>2, <1>3
<1>. QED
  BY <1>4 DEF SumEq, g

LEMMA SolutionCounts ==
  ASSUME NEW f, IsFiniteSet(DOMAIN f), \A i \in DOMAIN f : f[i] \in Nat, NEW it, SumEq(it, f)
  PROVE  it[DOMAIN f] = Cardinality(UnitsOf(f, DOMAIN f))
<1>. DEFINE Wrong == {S \in SUBSET DOMAIN f : it[S] # Cardinality(UnitsOf(f, S))}
            Sizes == {Cardinality(S) : S \in Wrong}
<1>1. ASSUME NEW S \in SUBSET DOMAIN f PROVE IsFiniteSet(S) /\ Cardinality(S) \in Nat
  <2>1. IsFiniteSet(S)
    BY FS_Subset
  <2>. QED
    BY <2>1, FS_CardinalityType
<1>2. ASSUME Wrong # {} PROVE FALSE
  <2>1. Sizes \in SUBSET Nat /\ Sizes # {}
    BY <1>1, <1>2
  <2>2. PICK k \in Sizes : \A n \in Sizes : k <= n
    <3>. HIDE DEF Sizes
    <3>. QED
      BY <2>1, LeastNumber
  <2>3. PICK S \in Wrong : k = Cardinality(S)
    OBVIOUS
  <2>4. it[S] = IF S = {} THEN 0 ELSE LET m == CHOOSE j \in S : TRUE IN f[m] + it[S \ {m}]
    BY DEF SumEq
  <2>5. S # {}
    <3>1. UnitsOf(f, {}) = {}
      BY DEF UnitsOf
    <3>. QED
      BY <2>4, <3>1, FS_EmptySet
  <2>6. PICK m \in S : it[S] = f[m] + it[S \ {m}]
    BY <2>4, <2>5
  <2>7. Cardinality(S \ {m}) = Cardinality(S) - 1
    BY <1>1, FS_RemoveElement
  <2>8. S \ {m} \notin Wrong
    <3>1. \A T \in Wrong : k <= Cardinality(T)
      BY <2>2
    <3>2. Cardinality(S) \in Nat
      BY <1>1
    <3>. QED
      BY <2>3, <2>7, <3>1, <3>2
  <2>9. it[S \ {m}] = Cardinality(UnitsOf(f, S \ {m}))
    BY <2>8
  <2>10. Cardinality(UnitsOf(f, S)) = f[m] + Cardinality(UnitsOf(f, S \ {m}))
    BY <1>1, UnitsStep
  <2>. QED
    BY <2>6, <2>9, <2>10
<1>. QED
  BY <1>2

LEMMA FoldCounts ==
  ASSUME NEW f, IsFiniteSet(DOMAIN f), \A i \in DOMAIN f : f[i] \in Nat
  PROVE  FoldFunction(+, 0, f) = Cardinality(UnitsOf(f, DOMAIN f))
<1>. DEFINE it == CHOOSE it : SumEq(it, f)
<1>1. FoldFunction(+, 0, f) = it[DOMAIN f]
  BY DEF FoldFunction, FoldFunctionOnSet, MapThenFoldSet, SumEq
<1>2. SumEq(it, f)
  BY CountSolves
<1>. HIDE DEF it
<1>. QED
  BY <1>1, <1>2, SolutionCounts

(* The number whose bits are v[0], v[1], ... v[n - 1]. *)
NumberOf(v, n) == FoldFunction(+, 0, [i \in 0 .. (n - 1) |-> 2 ^ i * v[i]])
AreBits(v, n) == \A i \in 0 .. (n - 1) : v[i] \in {0, 1}

LEMMA NumberOfNothing == \A v : NumberOf(v, 0) = 0
<1>. SUFFICES ASSUME NEW v PROVE NumberOf(v, 0) = 0
  OBVIOUS
<1>1. PICK f : f = [i \in 0 .. (0 - 1) |-> 2 ^ i * v[i]]
  OBVIOUS
<1>2. DOMAIN f = {} /\ NumberOf(v, 0) = FoldFunction(+, 0, f)
  <2>1. NumberOf(v, 0) = FoldFunction(+, 0, f)
    BY <1>1, Zenon DEF NumberOf
  <2>2. DOMAIN f = {}
    BY <1>1
  <2>. QED
    BY <2>1, <2>2
<1>3. IsFiniteSet(DOMAIN f) /\ \A i \in DOMAIN f : f[i] \in Nat
  BY <1>2, FS_EmptySet
<1>4. FoldFunction(+, 0, f) = Cardinality(UnitsOf(f, DOMAIN f))
  BY <1>3, FoldCounts
<1>5. UnitsOf(f, {}) = {}
  BY DEF UnitsOf
<1>. QED
  BY <1>2, <1>4, <1>5, FS_EmptySet

LEMMA NumberStep ==
  ASSUME NEW n \in Nat, NEW v, AreBits(v, n + 1)
  PROVE  /\ NumberOf(v, 0) = 0
         /\ NumberOf(v, n + 1) = NumberOf(v, n) + 2 ^ n * v[n]
         /\ NumberOf(v, n) \in Nat /\ NumberOf(v, n + 1) \in Nat
<1>. DEFINE f(m) == [i \in 0 .. (m - 1) |-> 2 ^ i * v[i]]
<1>1. ASSUME NEW i \in 0 .. n PROVE 2 ^ i * v[i] \in Nat
  <2>1. 2 ^ i \in Nat
    BY PowerStep
  <2>2. PICK p \in Nat : p = 2 ^ i
    BY <2>1
  <2>3. v[i] = 0 \/ v[i] = 1
    BY DEF AreBits
  <2>4. p * 0 = 0 /\ p * 1 = p
    OBVIOUS
  <2>. QED
    BY <2>2, <2>3, <2>4
<1>2. ASSUME NEW m \in 0 .. (n + 1)
      PROVE  /\ NumberOf(v, m) = Cardinality(UnitsOf(f(m), 0 .. (m - 1)))
             /\ IsFiniteSet(0 .. (m - 1))
             /\ \A i \in 0 .. (m - 1) : f(m)[i] = 2 ^ i * v[i] /\ f(m)[i] \in Nat
  <2>1. IsFiniteSet(0 .. (m - 1))
    <3>1. m - 1 \in Int /\ 0 \in Int
      OBVIOUS
    <3>. QED
      BY <3>1, FS_Interval
  <2>2. \A i \in 0 .. (m - 1) : f(m)[i] = 2 ^ i * v[i] /\ i \in 0 .. n
    OBVIOUS
  <2>3. \A i \in 0 .. (m - 1) : f(m)[i] \in Nat
    BY <1>1, <2>2
  <2>4. DOMAIN f(m) = 0 .. (m - 1) /\ NumberOf(v, m) = FoldFunction(+, 0, f(m))
    BY DEF NumberOf
  <2>. HIDE DEF f
  <2>5. FoldFunction(+, 0, f(m)) = Cardinality(UnitsOf(f(m), 0 .. (m - 1)))
    BY <2>1, <2>3, <2>4, FoldCounts
  <2>. QED
    BY <2>1, <2>2, <2>3, <2>4, <2>5
<1>. HIDE DEF f
<1>3. n + 1 \in 0 .. (n + 1) /\ n \in 0 .. (n + 1) /\ 0 \in 0 .. (n + 1) /\ (n + 1) - 1 = n /\ n \in 0 .. n
  OBVIOUS
<1>4. UnitsOf(f(n + 1), 0 .. (n - 1)) = UnitsOf(f(n), 0 .. (n - 1))
  <2>1. \A i \in 0 .. (n - 1) : i \in 0 .. n
    OBVIOUS
  <2>2. \A i \in 0 .. (n - 1) : f(n + 1)[i] = f(n)[i]
    <3>1. \A i \in 0 .. n : f(n + 1)[i] = 2 ^ i * v[i]
      BY <1>2, <1>3
    <3>2. \A i \in 0 .. (n - 1) : f(n)[i] = 2 ^ i * v[i]
      BY <1>2, <1>3
    <3>. QED
      BY <2>1, <3>1, <3>2
  <2>. QED
    BY <2>2 DEF UnitsOf
<1>5. (0 .. n) \ {n} = 0 .. (n - 1)
  OBVIOUS
<1>6. PICK S : S = 0 .. n
  OBVIOUS
<1>7. /\ IsFiniteSet(S) /\ n \in S /\ \A i \in S : f(n + 1)[i] \in Nat
      /\ NumberOf(v, n + 1) = Cardinality(UnitsOf(f(n + 1), S)) /\ f(n + 1)[n] = 2 ^ n * v[n]
  BY <1>2, <1>3, <1>6
<1>8. PICK g : g = f(n + 1)
  OBVIOUS
<1>. HIDE DEF f
<1>s. IsFiniteSet(S) /\ n \in S /\ \A i \in S : g[i] \in Nat
  BY <1>7, <1>8
<1>9. /\ Cardinality(UnitsOf(g, S)) = g[n] + Cardinality(UnitsOf(g, S \ {n}))
      /\ Cardinality(UnitsOf(g, S)) \in Nat /\ Cardinality(UnitsOf(g, S \ {n})) \in Nat
  BY <1>s, UnitsStep
<1>10. NumberOf(v, n) = Cardinality(UnitsOf(g, S \ {n}))
  BY <1>2, <1>3, <1>4, <1>5, <1>6, <1>8
<1>11. 2 ^ n * v[n] \in Nat
  BY <1>1, <1>3
<1>12. NumberOf(v, 0) = 0
  BY NumberOfNothing
<1>13. PICK a \in Nat, b \in Nat : a = 2 ^ n * v[n] /\ b = NumberOf(v, n)
  BY <1>9, <1>10, <1>11
<1>. QED
  BY <1>7, <1>8, <1>9, <1>10, <1>12, <1>13

(* A set of naturals that holds 0 and with each its successor holds them all. *)
LEMMA AllNumbers ==
  ASSUME NEW S, 0 \in S, \A n \in Nat : n \in S => n + 1 \in S
  PROVE  \A n \in Nat : n \in S
<1>. DEFINE T == {n \in Nat : n \notin S}
<1>1. ASSUME T # {} PROVE FALSE
  <2>1. T \in SUBSET Nat
    OBVIOUS
  <2>2. PICK m \in T : \A n \in T : m <= n
    <3>. HIDE DEF T
    <3>. QED
      BY <1>1, <2>1, LeastNumber
  <2>3. m # 0 /\ m - 1 \in Nat /\ (m - 1) + 1 = m /\ ~ (m <= m - 1)
    OBVIOUS
  <2>4. m - 1 \in S
    BY <2>2, <2>3
  <2>. QED
    BY <2>3, <2>4
<1>. QED
  BY <1>1

(* Bits whose sums are right one by one make up numbers whose sum is right. *)
LEMMA RippleSum ==
  ASSUME NEW va, NEW vb, NEW vs, NEW vc, NEW n \in Nat, AreBits(va, n), AreBits(vb, n), AreBits(vs, n), AreBits(vc, n + 1),
         \A i \in 0 .. (n - 1) : va[i] + vb[i] + vc[i] = vs[i] + 2 * vc[i + 1]
  PROVE  NumberOf(va, n) + NumberOf(vb, n) + vc[0] = NumberOf(vs, n) + 2 ^ n * vc[n]
<1>. DEFINE P(m) == NumberOf(va, m) + NumberOf(vb, m) + vc[0] = NumberOf(vs, m) + 2 ^ m * vc[m]
            S == {m \in Nat : m <= n => P(m)}
<1>0. \A i \in 0 .. n : vc[i] \in {0, 1}
  BY DEF AreBits
<1>1. 0 \in S
  <2>2. \A v : NumberOf(v, 0) = 0
    BY NumberOfNothing
  <2>3. 2 ^ 0 = 1 /\ vc[0] \in {0, 1}
    BY <1>0
  <2>. QED
    BY <2>2, <2>3
<1>2. ASSUME NEW m \in Nat, m \in S PROVE m + 1 \in S
  <2>. SUFFICES ASSUME m + 1 <= n PROVE P(m + 1)
    OBVIOUS
  <2>1. P(m) /\ m \in 0 .. (n - 1) /\ m + 1 \in 0 .. n /\ m \in 0 .. n /\ 0 \in 0 .. n
    BY <1>2
  <2>2. AreBits(va, m + 1) /\ AreBits(vb, m + 1) /\ AreBits(vs, m + 1)
    BY DEF AreBits
  <2>3. PICK w \in Nat : w = 2 ^ m
    BY PowerStep
  <2>4. 2 ^ (m + 1) = 2 * w
    BY <2>3, PowerStep
  <2>5. va[m] \in {0, 1} /\ vb[m] \in {0, 1} /\ vs[m] \in {0, 1} /\ vc[m] \in {0, 1} /\ vc[m + 1] \in {0, 1} /\ vc[0] \in {0, 1}
    BY <1>0, <2>1 DEF AreBits
  <2>6. PICK ta \in Nat, tb \in Nat, ts \in Nat : ta = NumberOf(va, m) /\ tb = NumberOf(vb, m) /\ ts = NumberOf(vs, m)
    BY <2>2, NumberStep
  <2>7. /\ NumberOf(va, m + 1) = ta + w * va[m] /\ NumberOf(vb, m + 1) = tb + w * vb[m]
        /\ NumberOf(vs, m + 1) = ts + w * vs[m]
    BY <2>2, <2>3, <2>6, NumberStep
  <2>8. ta + tb + vc[0] = ts + w * vc[m]
    BY <2>1, <2>3, <2>6
  <2>9. va[m] + vb[m] + vc[m] = vs[m] + 2 * vc[m + 1]
    BY <2>1
  <2>10. (ta + w * va[m]) + (tb + w * vb[m]) + vc[0] = (ts + w * vs[m]) + (2 * w) * vc[m + 1]
    BY <2>5, <2>8, <2>9, OneMoreBit
  <2>. QED
    BY <2>4, <2>7, <2>10
<1>. HIDE DEF P
<1>3. n \in S
  <2>. HIDE DEF S
  <2>. QED
    BY <1>1, <1>2, AllNumbers
<1>. QED
  BY <1>3 DEF P

LEMMA RippleDifference ==
  ASSUME NEW va, NEW vb, NEW vs, NEW vc, NEW n \in Nat, AreBits(va, n), AreBits(vb, n), AreBits(vs, n), AreBits(vc, n + 1),
         vc[0] = 0,
         \A i \in 0 .. (n - 1) : va[i] - vb[i] - vc[i] = vs[i] - 2 * vc[i + 1]
  PROVE  NumberOf(va, n) - NumberOf(vb, n) = NumberOf(vs, n) - 2 ^ n * vc[n]
<1>. DEFINE P(m) == NumberOf(va, m) - NumberOf(vb, m) = NumberOf(vs, m) - 2 ^ m * vc[m]
            S == {m \in Nat : m <= n => P(m)}
<1>0. \A i \in 0 .. n : vc[i] \in {0, 1}
  BY DEF AreBits
<1>1. 0 \in S
  <2>2. \A v : NumberOf(v, 0) = 0
    BY NumberOfNothing
  <2>3. 2 ^ 0 = 1 /\ vc[0] \in {0, 1}
    BY <1>0
  <2>. QED
    BY <2>2, <2>3
<1>2. ASSUME NEW m \in Nat, m \in S PROVE m + 1 \in S
  <2>. SUFFICES ASSUME m + 1 <= n PROVE P(m + 1)
    OBVIOUS
  <2>1. P(m) /\ m \in 0 .. (n - 1) /\ m + 1 \in 0 .. n /\ m \in 0 .. n
    BY <1>2
  <2>2. AreBits(va, m + 1) /\ AreBits(vb, m + 1) /\ AreBits(vs, m + 1)
    BY DEF AreBits
  <2>3. PICK w \in Nat : w = 2 ^ m
    BY PowerStep
  <2>4. 2 ^ (m + 1) = 2 * w
    BY <2>3, PowerStep
  <2>5. va[m] \in {0, 1} /\ vb[m] \in {0, 1} /\ vs[m] \in {0, 1} /\ vc[m] \in {0, 1} /\ vc[m + 1] \in {0, 1}
    BY <1>0, <2>1 DEF AreBits
  <2>6. PICK ta \in Nat, tb \in Nat, ts \in Nat : ta = NumberOf(va, m) /\ tb = NumberOf(vb, m) /\ ts = NumberOf(vs, m)
    BY <2>2, NumberStep
  <2>7. /\ NumberOf(va, m + 1) = ta + w * va[m] /\ NumberOf(vb, m + 1) = tb + w * vb[m]
        /\ NumberOf(vs, m + 1) = ts + w * vs[m]
    BY <2>2, <2>3, <2>6, NumberStep
  <2>8. ta - tb = ts - w * vc[m]
    BY <2>1, <2>3, <2>6
  <2>9. va[m] - vb[m] - vc[m] = vs[m] - 2 * vc[m + 1]
    BY <2>1
  <2>10. (ta + w * va[m]) - (tb + w * vb[m]) = (ts + w * vs[m]) - (2 * w) * vc[m + 1]
    BY <2>5, <2>8, <2>9, OneMoreBit
  <2>. QED
    BY <2>4, <2>7, <2>10
<1>. HIDE DEF P
<1>3. n \in S
  <2>. HIDE DEF S
  <2>. QED
    BY <1>1, <1>2, AllNumbers
<1>. QED
  BY <1>3 DEF P

----------------------------------------------------------------------------
(* The gates of the outputs *)

(* The gates at one bit of a call that need not be canonical: those that an     *)
(* earlier module may have driven in another way.                            *)
HasGate(c, n, g) == n \in DOMAIN c /\ c[n].gate = g.gate /\ c[n].fanin = g.fanin
OwnAt(c, k, j) ==
  LET a  == Bit(k.a, j)
      b  == Bit(k.b, j)
      wire(w) == Bit(Suffixed(k.out, w), j)
  IN /\ k.op = "add" => /\ HasGate(c, Bit(k.out, j), Gate("xor3", <<a, b, CarryIn(k, j)>>))
                        /\ HasGate(c, CarryOut(k, j), Gate("or2", <<wire("_AB"), wire("_ciAxorB")>>))
     /\ k.op = "sub" => HasGate(c, Bit(k.out, j), Gate("xor3", <<a, b, BorrowIn(k, j)>>))
     /\ k.op = "shift" => HasGate(c, Bit(k.out, j),
                            Gate("buf1", <<IF j < k.shift THEN Wire("ZERO") ELSE Bit(k.a, j - k.shift)>>))
     /\ k.op = "mux" => HasGate(c, Bit(z, j),
                          Gate("mux4", <<Wire("sel1"), Wire("sel2"), Bit(minus5X, j), Bit(minus3Y, j),
                                         Bit(fiveX, j), Bit(threeY, j)>>))
OwnTo(c, k, i) == \A j \in First(k) .. (i - 1) : OwnAt(c, k, j)

LEMMA GateIs == \A g, ins : Gate(g, ins).gate = g /\ Gate(g, ins).fanin = ins
  BY DEF Gate

LEMMA GateThere ==
  ASSUME NEW c, IsCircuit(c), NEW n \in DOMAIN c, NEW g, NEW ins, NEW d, d = SetGate(c, n, g, ins)
  PROVE  /\ DOMAIN d = DOMAIN c /\ IsCircuit(d)
         /\ HasGate(d, n, Gate(g, ins))
         /\ \A m \in DOMAIN c : m # n => d[m] = c[m]
<1>1. /\ DOMAIN d = DOMAIN c /\ IsCircuit(d)
      /\ \A m \in DOMAIN c : m # n => d[m] = c[m]
  BY GateEffect
<1>2. PICK w : w = Value(g, ValuesOf(c, ins))
  OBVIOUS
<1>3. d[n] = [c[n] EXCEPT !.fanin = ins, !.gate = g, !.val = w]
  BY <1>2 DEF SetGate
<1>4. DOMAIN c[n] = {"type", "fanin", "gate", "val"}
  BY DEF IsCircuit, IsNode
<1>5. d[n].gate = g /\ d[n].fanin = ins
  BY <1>3, <1>4
<1>. QED
  BY <1>1, <1>5, GateIs DEF HasGate

(* What a step leaves alone of the bits before. *)
LEMMA OwnKept ==
  ASSUME NEW k \in ProperCalls, NEW i \in First(k) .. (End(k) - 1), NEW c, NEW d, OwnTo(c, k, i),
         DOMAIN d = DOMAIN c, \A m \in DOMAIN c : m[2] \notin {i, NoBit} => d[m] = c[m]
  PROVE  OwnTo(d, k, i)
<1>. SUFFICES ASSUME NEW j \in First(k) .. (i - 1) PROVE OwnAt(d, k, j)
  BY DEF OwnTo
<1>1. k.bits \in 0 .. (UintMod - 1) /\ k.bits \in Nat /\ k.shift \in Nat /\ InBits \in Nat /\ Width = InBits + 3
  BY SizesAssumption DEF ProperCalls, Call, Width
<1>2. First(k) \in Nat /\ End(k) \in Nat /\ (k.op = "add" => End(k) = k.bits)
  BY LoopBounds
<1>3. j \in Nat /\ j # i /\ j # NoBit /\ j < i /\ i \in Nat
  BY <1>2 DEF NoBit
<1>4. OwnAt(c, k, j)
  BY DEF OwnTo
<1>5. \A p, g : HasGate(c, Bit(p, j), g) => HasGate(d, Bit(p, j), g)
  BY <1>3, BitIs DEF HasGate
<1>6. k.op = "add" => CarryOut(k, j) = Bit(k.out \o <<"_c">>, j)
  <2>. SUFFICES ASSUME k.op = "add" PROVE CarryOut(k, j) = Bit(k.out \o <<"_c">>, j)
    OBVIOUS
  <2>1. k.bits \in 1 .. (UintMod - 1)
    BY <1>1, <1>2, <1>3
  <2>2. Less(k.bits) = k.bits - 1
    BY <2>1, LessIsOneLess
  <2>. QED
    BY <1>2, <1>3, <2>2 DEF CarryOut
<1>. QED
  BY <1>4, <1>5, <1>6 DEF OwnAt

(* One more bit. *)
OwnMade ==
  /\ DOMAIN circuit' = DOMAIN circuit
  /\ \A m \in DOMAIN circuit : m[2] \notin {bit, NoBit} => circuit'[m] = circuit[m]
  /\ OwnAt(circuit', call, bit)

LEMMA AddOwn ==
  ASSUME FInv, AddBit
  PROVE  OwnMade
<1>1. TInv /\ Building /\ bit # NoBit /\ call.op = "add" /\ bit < End(call) /\ IsCircuit(circuit)
  BY DEF FInv, AddBit, At, TInv, GInv
<1>2. PICK k \in ProperCalls : k = call
  BY <1>1, CallIsProper DEF TInv
<1>3. bit \in 0 .. (k.bits - 1) /\ Created(k) \subseteq DOMAIN circuit
  <2>1. bit \in First(k) .. End(k) /\ Created(k) \subseteq DOMAIN circuit
    BY <1>1, <1>2 DEF TInv
  <2>2. First(k) = 0 /\ End(k) = k.bits /\ k.bits \in Nat
    BY <1>1, <1>2, SizesAssumption DEF First, End, ProperCalls, Call
  <2>. QED
    BY <1>1, <1>2, <2>1, <2>2
<1>. DEFINE D == DOMAIN circuit
            a    == Bit(k.a, bit)
            b    == Bit(k.b, bit)
            ci   == CarryIn(k, bit)
            s    == Bit(k.out, bit)
            ab   == Bit(k.out \o <<"_AB">>, bit)
            axb  == Bit(k.out \o <<"_AxorB">>, bit)
            caxb == Bit(k.out \o <<"_ciAxorB">>, bit)
            co   == CarryOut(k, bit)
            zero == Wire("zero")
            c1 == SetGate(circuit, s, "xor3", <<a, b, ci>>)
            c2 == SetGate(c1, ab, "and2", <<a, b>>)
            c3 == SetGate(c2, axb, "xor3", <<zero, a, b>>)
            c4 == SetGate(c3, caxb, "and2", <<ci, axb>>)
            c5 == SetGate(c4, co, "or2", <<ab, caxb>>)
<1>4. circuit' = c5
  BY <1>2 DEF AddBit
<1>5. s \in D /\ ab \in D /\ axb \in D /\ caxb \in D /\ co \in D
  BY <1>1, <1>2, <1>3, AddCreates
<1>6. s # ab /\ s # axb /\ s # caxb /\ s # co
  <2>1. /\ Apart({a, b, zero}, {s, ab, axb, caxb, co}) /\ Apart({ci}, {s, ab, axb})
        /\ Apart({s}, {ab, axb, caxb, co}) /\ Apart({ab}, {axb, caxb})
        /\ k.cin \notin {s, ab, axb, caxb, co}
    <3>1. k.op = "add" /\ bit \in 0 .. (k.bits - 1)
      BY <1>1, <1>2, <1>3
    <3>. QED
      BY <3>1, AddNamesApart
  <2>. HIDE DEF s, ab, axb, caxb, co
  <2>. QED
    BY <2>1 DEF Apart
<1>7. \A m \in D : m[2] \notin {bit, NoBit} => m \notin {s, ab, axb, caxb, co}
  <2>1. s[2] = bit /\ ab[2] = bit /\ axb[2] = bit /\ caxb[2] = bit
    BY BitIs
  <2>2. co[2] \in {bit, NoBit}
    <3>1. k.cout[2] = NoBit
      BY <1>1, <1>2 DEF ProperCalls, Proper
    <3>. QED
      BY <3>1, BitIs DEF CarryOut
  <2>. HIDE DEF s, ab, axb, caxb, co
  <2>. QED
    BY <2>1, <2>2
<1>8. OwnAt(circuit', k, bit) <=> /\ HasGate(circuit', s, Gate("xor3", <<a, b, ci>>))
                                  /\ HasGate(circuit', co, Gate("or2", <<ab, caxb>>))
  BY <1>1, <1>2 DEF OwnAt, Suffixed
<1>. HIDE DEF D, a, b, ci, s, ab, axb, caxb, co, zero
<1>9. D = DOMAIN circuit
  BY DEF D
<1>10. DOMAIN c1 = D /\ IsCircuit(c1) /\ HasGate(c1, s, Gate("xor3", <<a, b, ci>>)) /\ \A m \in D : m # s => c1[m] = circuit[m]
  BY <1>1, <1>5, <1>9, GateThere
<1>. HIDE DEF c1
<1>11. DOMAIN c2 = D /\ IsCircuit(c2) /\ \A m \in D : m # ab => c2[m] = c1[m]
  BY <1>5, <1>10, GateThere
<1>. HIDE DEF c2
<1>12. DOMAIN c3 = D /\ IsCircuit(c3) /\ \A m \in D : m # axb => c3[m] = c2[m]
  BY <1>5, <1>11, GateThere
<1>. HIDE DEF c3
<1>13. DOMAIN c4 = D /\ IsCircuit(c4) /\ \A m \in D : m # caxb => c4[m] = c3[m]
  BY <1>5, <1>12, GateThere
<1>. HIDE DEF c4
<1>14. DOMAIN c5 = D /\ HasGate(c5, co, Gate("or2", <<ab, caxb>>)) /\ \A m \in D : m # co => c5[m] = c4[m]
  BY <1>5, <1>13, GateThere
<1>. HIDE DEF c5
<1>15. c5[s] = c1[s]
  BY <1>5, <1>6, <1>11, <1>12, <1>13, <1>14
<1>16. HasGate(c5, s, Gate("xor3", <<a, b, ci>>))
  BY <1>10, <1>14, <1>15 DEF HasGate
<1>17. \A m \in D : m \notin {s, ab, axb, caxb, co} => c5[m] = circuit[m]
  BY <1>10, <1>11, <1>12, <1>13, <1>14
<1>. QED
  BY <1>2, <1>4, <1>7, <1>8, <1>9, <1>14, <1>16, <1>17 DEF OwnMade

LEMMA SubOwn ==
  ASSUME FInv, SubBit
  PROVE  OwnMade
<1>1. TInv /\ Building /\ bit # NoBit /\ call.op = "sub" /\ bit < End(call) /\ IsCircuit(circuit)
  BY DEF FInv, SubBit, At, TInv, GInv
<1>2. PICK k \in ProperCalls : k = call
  BY <1>1, CallIsProper DEF TInv
<1>3. bit \in 0 .. (k.bits - 1) /\ Created(k) \subseteq DOMAIN circuit
  <2>1. bit \in First(k) .. End(k) /\ Created(k) \subseteq DOMAIN circuit
    BY <1>1, <1>2 DEF TInv
  <2>2. First(k) = 0 /\ End(k) = k.bits /\ k.bits \in Nat
    BY <1>1, <1>2, SizesAssumption DEF First, End, ProperCalls, Call
  <2>. QED
    BY <1>1, <1>2, <2>1, <2>2
<1>. DEFINE D == DOMAIN circuit
            a    == Bit(k.a, bit)
            b    == Bit(k.b, bit)
            bi   == BorrowIn(k, bit)
            s    == Bit(k.out, bit)
            axb  == Bit(k.out \o <<"_AxorB">>, bit)
            naxb == Bit(k.out \o <<"_notAxorB">>, bit)
            t1   == Bit(k.out \o <<"_temp1">>, bit)
            na   == Bit(k.out \o <<"_notA">>, bit)
            t2   == Bit(k.out \o <<"_temp2">>, bit)
            bo   == Bit(k.out \o <<"_Bo">>, bit)
            zero == Wire("zero")
            one  == Wire("one")
            c1 == SetGate(circuit, s, "xor3", <<a, b, bi>>)
            c2 == SetGate(c1, axb, "xor3", <<zero, a, b>>)
            c3 == SetGate(c2, naxb, "xor3", <<zero, axb, one>>)
            c4 == SetGate(c3, t1, "and2", <<bi, naxb>>)
            c5 == SetGate(c4, na, "xor3", <<zero, a, one>>)
            c6 == SetGate(c5, t2, "and2", <<na, b>>)
            c7 == SetGate(c6, bo, "or2", <<t1, t2>>)
<1>4. circuit' = c7
  BY <1>2 DEF SubBit
<1>5. s \in D /\ axb \in D /\ naxb \in D /\ t1 \in D /\ na \in D /\ t2 \in D /\ bo \in D
  BY <1>1, <1>2, <1>3, SubCreates
<1>6. s # axb /\ s # naxb /\ s # t1 /\ s # na /\ s # t2 /\ s # bo
  <2>1. /\ Apart({a, b, bi, zero, one}, {s, axb, naxb, t1, na, t2, bo})
        /\ Apart({s}, {axb, naxb, t1, na, t2, bo}) /\ Apart({t1}, {na, t2})
    <3>1. k.op = "sub" /\ bit \in 0 .. (k.bits - 1)
      BY <1>1, <1>2, <1>3
    <3>. QED
      BY <3>1, SubNamesApart
  <2>. HIDE DEF s, axb, naxb, t1, na, t2, bo
  <2>. QED
    BY <2>1 DEF Apart
<1>7. \A m \in D : m[2] \notin {bit, NoBit} => m \notin {s, axb, naxb, t1, na, t2, bo}
  <2>1. s[2] = bit /\ axb[2] = bit /\ naxb[2] = bit /\ t1[2] = bit /\ na[2] = bit /\ t2[2] = bit /\ bo[2] = bit
    BY BitIs
  <2>. HIDE DEF s, axb, naxb, t1, na, t2, bo
  <2>. QED
    BY <2>1
<1>8. OwnAt(circuit', k, bit) <=> HasGate(circuit', s, Gate("xor3", <<a, b, bi>>))
  BY <1>1, <1>2 DEF OwnAt
<1>. HIDE DEF D, a, b, bi, s, axb, naxb, t1, na, t2, bo, zero, one
<1>9. D = DOMAIN circuit
  BY DEF D
<1>9a. IsCircuit(circuit) /\ s \in DOMAIN circuit
  BY <1>1, <1>5, <1>9
<1>9b. PICK d : d = c1 /\ d = SetGate(circuit, s, "xor3", <<a, b, bi>>)
  OBVIOUS
<1>. HIDE DEF c1
<1>9c. /\ DOMAIN d = DOMAIN circuit /\ IsCircuit(d) /\ HasGate(d, s, Gate("xor3", <<a, b, bi>>))
       /\ \A m \in DOMAIN circuit : m # s => d[m] = circuit[m]
  BY <1>9a, <1>9b, GateThere
<1>10. DOMAIN c1 = D /\ IsCircuit(c1) /\ HasGate(c1, s, Gate("xor3", <<a, b, bi>>)) /\ \A m \in D : m # s => c1[m] = circuit[m]
  BY <1>9, <1>9b, <1>9c, Zenon
<1>11. DOMAIN c2 = D /\ IsCircuit(c2) /\ \A m \in D : m # axb => c2[m] = c1[m]
  <2>1. IsCircuit(c1) /\ axb \in DOMAIN c1
    BY <1>5, <1>10
  <2>2. PICK e : e = c2 /\ e = SetGate(c1, axb, "xor3", <<zero, a, b>>)
    OBVIOUS
  <2>. HIDE DEF c2
  <2>3. DOMAIN e = DOMAIN c1 /\ IsCircuit(e) /\ \A m \in DOMAIN c1 : m # axb => e[m] = c1[m]
    BY <2>1, <2>2, GateThere
  <2>. QED
    BY <1>10, <2>2, <2>3, Zenon
<1>. HIDE DEF c2
<1>12. DOMAIN c3 = D /\ IsCircuit(c3) /\ \A m \in D : m # naxb => c3[m] = c2[m]
  BY <1>5, <1>11, GateThere
<1>. HIDE DEF c3
<1>13. DOMAIN c4 = D /\ IsCircuit(c4) /\ \A m \in D : m # t1 => c4[m] = c3[m]
  BY <1>5, <1>12, GateThere
<1>. HIDE DEF c4
<1>14. DOMAIN c5 = D /\ IsCircuit(c5) /\ \A m \in D : m # na => c5[m] = c4[m]
  BY <1>5, <1>13, GateThere
<1>. HIDE DEF c5
<1>15. DOMAIN c6 = D /\ IsCircuit(c6) /\ \A m \in D : m # t2 => c6[m] = c5[m]
  BY <1>5, <1>14, GateThere
<1>. HIDE DEF c6
<1>16. DOMAIN c7 = D /\ \A m \in D : m # bo => c7[m] = c6[m]
  BY <1>5, <1>15, GateThere
<1>. HIDE DEF c7
<1>17. c7[s] = c1[s]
  BY <1>5, <1>6, <1>11, <1>12, <1>13, <1>14, <1>15, <1>16
<1>18. HasGate(c7, s, Gate("xor3", <<a, b, bi>>))
  BY <1>10, <1>16, <1>17 DEF HasGate
<1>19. \A m \in D : m \notin {s, axb, naxb, t1, na, t2, bo} => c7[m] = circuit[m]
  BY <1>10, <1>11, <1>12, <1>13, <1>14, <1>15, <1>16
<1>. QED
  BY <1>2, <1>4, <1>7, <1>8, <1>9, <1>16, <1>18, <1>19 DEF OwnMade

(* Steps that drive one node of the bit, or nodes that are no sinks. *)
LEMMA OneOwn ==
  ASSUME NEW n \in DOMAIN circuit, n[2] \in {bit, NoBit}, IsCircuit(circuit), NEW g, NEW ins,
         circuit' = SetGate(circuit, n, g, ins), HasGate(circuit', n, Gate(g, ins)) => OwnAt(circuit', call, bit)
  PROVE  OwnMade
<1>1. PICK d : d = circuit'
  OBVIOUS
<1>2. DOMAIN d = DOMAIN circuit /\ HasGate(d, n, Gate(g, ins)) /\ \A m \in DOMAIN circuit : m # n => d[m] = circuit[m]
  BY <1>1, GateThere
<1>. QED
  BY <1>1, <1>2 DEF OwnMade

LEMMA ShiftOwn ==
  ASSUME FInv, ShiftBit
  PROVE  OwnMade
<1>1. TInv /\ Building /\ bit # NoBit /\ call.op = "shift" /\ bit < End(call) /\ IsCircuit(circuit)
  BY DEF FInv, ShiftBit, At, TInv, GInv
<1>2. PICK k \in ProperCalls : k = call
  BY <1>1, CallIsProper DEF TInv
<1>4. PICK n, ins : n = Bit(k.out, bit) /\ ins = <<IF bit < k.shift THEN Wire("ZERO") ELSE Bit(k.a, bit - k.shift)>>
  OBVIOUS
<1>5. circuit' = SetGate(circuit, n, "buf1", ins)
  BY <1>2, <1>4 DEF ShiftBit
<1>6. n \in DOMAIN circuit
  BY <1>2, <1>4 DEF ShiftBit
<1>7. n[2] = bit
  BY <1>4, BitIs
<1>8. HasGate(circuit', n, Gate("buf1", ins)) => OwnAt(circuit', call, bit)
  BY <1>1, <1>2, <1>4 DEF OwnAt
<1>. QED
  BY <1>1, <1>5, <1>6, <1>7, <1>8, OneOwn

LEMMA MuxOwn ==
  ASSUME FInv, MuxBit
  PROVE  OwnMade
<1>1. TInv /\ Building /\ bit # NoBit /\ call.op = "mux" /\ bit < End(call) /\ IsCircuit(circuit)
  BY DEF FInv, MuxBit, At, TInv, GInv
<1>2. Calls(option) = AbsMinCalls /\ Done = 11
  BY <1>1, OnlyAbsMin
<1>3. bit \in 0 .. (Width - 1)
  <2>1. bit \in First(call) .. End(call) /\ Width \in Nat
    BY <1>1, SizesAssumption DEF TInv, Width
  <2>. QED
    BY <1>1, <2>1 DEF First, End
<1>4. PICK n, ins : n = Bit(z, bit) /\ ins = <<Wire("sel1"), Wire("sel2"), Bit(minus5X, bit), Bit(minus3Y, bit),
                                              Bit(fiveX, bit), Bit(threeY, bit)>>
  OBVIOUS
<1>5. circuit' = SetGate(circuit, n, "mux4", ins)
  BY <1>4 DEF MuxBit, Mux4
<1>6. n \in DOMAIN circuit
  <2>1. Created(AbsMinCalls[1]) \subseteq DOMAIN circuit
    BY <1>1, <1>2, EarlierThere
  <2>. QED
    BY <1>3, <1>4, <2>1, AbsMinCreates
<1>7. n[2] = bit
  BY <1>4, BitIs
<1>8. HasGate(circuit', n, Gate("mux4", ins)) => OwnAt(circuit', call, bit)
  BY <1>1, <1>4 DEF OwnAt
<1>. QED
  BY <1>1, <1>5, <1>6, <1>7, <1>8, OneOwn

(* All that is needed of these two is that they leave the other bits alone. *)
LEMMA TwoOwn ==
  ASSUME NEW p \in DOMAIN circuit, p[2] \in {bit, NoBit}, NEW q \in DOMAIN circuit, q[2] \in {bit, NoBit}, IsCircuit(circuit),
         NEW g, NEW h, NEW i1, NEW i2, circuit' = SetGate(SetGate(circuit, p, g, i1), q, h, i2), call.op \in {"extend", "select"}
  PROVE  OwnMade
<1>1. PICK c, d : c = SetGate(circuit, p, g, i1) /\ d = SetGate(c, q, h, i2)
  OBVIOUS
<1>2. DOMAIN c = DOMAIN circuit /\ IsCircuit(c) /\ \A m \in DOMAIN circuit : m # p => c[m] = circuit[m]
  BY <1>1, GateThere
<1>3. DOMAIN d = DOMAIN circuit /\ \A m \in DOMAIN circuit : m # q => d[m] = c[m]
  BY <1>1, <1>2, GateThere
<1>4. circuit' = d
  BY <1>1
<1>. QED
  BY <1>2, <1>3, <1>4 DEF OwnMade, OwnAt

LEMMA OtherOwn ==
  ASSUME FInv, ExtendBit \/ Select
  PROVE  OwnMade
<1>1. TInv /\ Building /\ bit # NoBit /\ call.op \in {"extend", "select"} /\ bit < End(call) /\ IsCircuit(circuit)
  BY DEF FInv, ExtendBit, Select, At, TInv, GInv
<1>2. Created(call) \subseteq DOMAIN circuit /\ bit \in First(call) .. End(call)
  BY <1>1 DEF TInv
<1>3. CASE ExtendBit
  <2>1. PICK p, q, i1, i2 : p = Bit(x, bit) /\ q = Bit(y, bit) /\ i1 = <<Bit(x, InBits - 1)>> /\ i2 = <<Bit(y, InBits - 1)>>
    OBVIOUS
  <2>2. circuit' = SetGate(SetGate(circuit, p, "buf1", i1), q, "buf1", i2)
    BY <1>3, <2>1 DEF ExtendBit
  <2>3. bit \in 0 .. (Width - 1)
    <3>1. call.op = "extend"
      BY <1>3 DEF ExtendBit, At
    <3>2. First(call) = InBits /\ End(call) = Width /\ InBits \in Nat /\ Width \in Nat
      BY <3>1, SizesAssumption DEF First, End, Width
    <3>. QED
      BY <1>1, <1>2, <3>2
  <2>4. p \in DOMAIN circuit /\ q \in DOMAIN circuit
    <3>1. Calls(option) = AbsMinCalls /\ Done = 1
      BY <1>1, <1>3, OnlyAbsMin DEF ExtendBit, At
    <3>2. Created(AbsMinCalls[1]) \subseteq DOMAIN circuit
      BY <1>1, <3>1, EarlierThere
    <3>. QED
      BY <2>1, <2>3, <3>2, AbsMinCreates
  <2>5. p[2] = bit /\ q[2] = bit
    BY <2>1, BitIs
  <2>. QED
    BY <1>1, <2>2, <2>4, <2>5, TwoOwn
<1>4. CASE Select
  <2>1. PICK p, q, i1, i2 : p = Wire("sel1") /\ q = Wire("sel2") /\ i2 = <<Bit(diff, Width - 1)>>
                            /\ i1 = <<Bit(fiveX, Width - 1), Bit(threeY, Width - 1)>>
    OBVIOUS
  <2>2. circuit' = SetGate(SetGate(circuit, p, "or2", i1), q, "buf1", i2)
    BY <1>4, <2>1 DEF Select, SignOfEither
  <2>3. p \in DOMAIN circuit /\ q \in DOMAIN circuit
    <3>1. call.op = "select"
      BY <1>4 DEF Select, At
    <3>. QED
      BY <1>2, <2>1, <3>1 DEF Created
  <2>4. p[2] = NoBit /\ q[2] = NoBit
    BY <2>1, WireIs, BitIs
  <2>. QED
    BY <1>1, <2>2, <2>3, <2>4, TwoOwn
<1>. QED
  BY <1>3, <1>4

LEMMA BuildOwn ==
  ASSUME FInv, Build
  PROVE  OwnMade
  BY AddOwn, SubOwn, ShiftOwn, MuxOwn, OtherOwn DEF Build

(* All of an option's calls have been made, and the last of them, which drives  *)
(* the outputs, has not been disturbed since.                                *)
LastCall(o) == Calls(o)[Len(Calls(o))]
Complete(c, o) ==
  /\ o \in Options
  /\ \A i \in 1 .. Len(Calls(o)) :
       /\ Sized(Calls(o)[i]) /\ MadeTo(c, Calls(o)[i], End(Calls(o)[i]))
       /\ Created(Calls(o)[i]) \subseteq DOMAIN c
  /\ OwnTo(c, LastCall(o), End(LastCall(o)))

MInv ==
  /\ FInv
  /\ bit # NoBit => OwnTo(circuit, call, bit)
  /\ (phase = "build" /\ todo = <<>>) \/ saved => Complete(circuit, option)

LEMMA NoCalls == \A s : s = <<>> => Len(s) = 0
<1>1. Len(<<>>) = 0
  OBVIOUS
<1>. QED
  BY <1>1, Zenon

LEMMA BuildOwns ==
  ASSUME MInv, Build
  PROVE  MInv'
<1>1. FInv /\ FInv'
  BY FSteps DEF MInv, Next
<1>2. OwnMade
  BY <1>1, BuildOwn
<1>3. /\ Building /\ bit # NoBit /\ bit < End(call)
      /\ bit' = bit + 1 /\ UNCHANGED <<phase, left, option, todo, given, saved>>
  BY DEF Build, AddBit, SubBit, ShiftBit, ExtendBit, Select, MuxBit, At, Advance
<1>4. call' = call /\ phase' = "build" /\ todo' # <<>> /\ ~saved'
  BY <1>1, <1>3, SameCalls DEF Building, FInv
<1>5. PICK k \in ProperCalls : k = call
  BY <1>1, <1>3, CallIsProper DEF FInv, TInv
<1>6. bit \in First(k) .. (End(k) - 1) /\ First(k) \in Nat /\ End(k) \in Nat
  <2>1. bit \in First(k) .. End(k)
    BY <1>1, <1>3, <1>5 DEF FInv, TInv
  <2>2. First(k) \in Nat /\ End(k) \in Nat
    BY LoopBounds
  <2>. QED
    BY <1>3, <1>5, <2>1, <2>2
<1>7. PICK d : d = circuit'
  OBVIOUS
<1>8. OwnTo(d, k, bit)
  <2>1. OwnTo(circuit, k, bit)
    BY <1>3, <1>5 DEF MInv
  <2>. QED
    BY <1>2, <1>6, <1>7, <2>1, OwnKept DEF OwnMade
<1>9. OwnTo(d, k, bit + 1)
  <2>1. \A j \in First(k) .. ((bit + 1) - 1) : j \in First(k) .. (bit - 1) \/ j = bit
    BY <1>6
  <2>. QED
    BY <1>2, <1>5, <1>7, <1>8, <2>1 DEF OwnTo, OwnMade
<1>. QED
  BY <1>1, <1>3, <1>4, <1>5, <1>7, <1>9 DEF MInv

LEMMA EndCallOwns ==
  ASSUME MInv, EndCall
  PROVE  MInv'
<1>1. FInv /\ FInv'
  BY FSteps DEF MInv, Next
<1>2. /\ Building /\ bit # NoBit /\ bit >= End(call) /\ todo' = Tail(todo) /\ bit' = NoBit
      /\ UNCHANGED <<phase, left, option, circuit, tally, given, saved>>
  BY DEF EndCall
<1>3. phase = "build" /\ phase' = "build" /\ ~saved' /\ TInv /\ TInv'
  BY <1>1, <1>2 DEF Building, FInv
<1>4. ASSUME todo' = <<>> PROVE Complete(circuit, option)
  <2>1. /\ option \in Options /\ Done' \in 0 .. Len(Calls(option))
        /\ \A i \in 1 .. Done' : Created(Calls(option)[i]) \subseteq DOMAIN circuit
    BY <1>2, <1>3 DEF TInv, Progress
  <2>2. Len(Calls(option)) \in Nat
    BY <2>1, CallsProper, OptionsAssumption
  <2>3. Done' = Len(Calls(option))
    <3>1. Len(todo') = 0
      BY <1>4, NoCalls, Zenon
    <3>2. Done' = Len(Calls(option)) - Len(todo')
      BY <1>2 DEF Done
    <3>. QED
      BY <2>2, <3>1, <3>2
  <2>4. \A i \in 1 .. Done' : Sized(Calls(option)[i]) /\ MadeTo(circuit, Calls(option)[i], End(Calls(option)[i]))
    BY <1>1, <1>2, <1>3 DEF FInv
  <2>5. Done + 1 = Len(Calls(option)) /\ call = LastCall(option) /\ call \in ProperCalls
    <3>1. call = Calls(option)[Done + 1] /\ Done \in Nat /\ todo \in Seq(ProperCalls) /\ todo # <<>> /\ call \in ProperCalls
      BY <1>2, <1>3, CallAt DEF Building, TInv, GInv
    <3>2. Len(todo) \in Nat /\ Len(todo') = Len(todo) - 1
      BY <1>2, <3>1
    <3>0. Len(todo') = 0
      BY <1>4, NoCalls, Zenon
    <3>4. Len(todo) = 1
      BY <3>0, <3>2
    <3>5. Done = Len(Calls(option)) - Len(todo)
      BY DEF Done
    <3>3. Done + 1 = Len(Calls(option))
      BY <2>2, <3>4, <3>5
    <3>. QED
      BY <3>1, <3>3 DEF LastCall
  <2>6. OwnTo(circuit, call, End(call))
    <3>2. End(call) \in Nat /\ First(call) \in Nat /\ bit \in Nat
      BY <1>2, <1>3, <2>5, LoopBounds DEF TInv, GInv
    <3>3. First(call) .. (End(call) - 1) \subseteq First(call) .. (bit - 1)
      BY <1>2, <3>2
    <3>4. OwnTo(circuit, call, bit)
      BY <1>2 DEF MInv
    <3>. QED
      BY <3>3, <3>4 DEF OwnTo
  <2>. QED
    BY <2>1, <2>3, <2>4, <2>5, <2>6 DEF Complete
<1>. QED
  BY <1>1, <1>2, <1>3, <1>4 DEF MInv

LEMMA SaveOwns ==
  ASSUME MInv, Save
  PROVE  MInv'
<1>1. FInv /\ FInv'
  BY FSteps DEF MInv, Next
<1>2. phase = "build" /\ todo = <<>> /\ phase' = "options" /\ option' = option /\ bit' = bit
  BY DEF Save
<1>3. Complete(circuit, option) /\ bit = NoBit
  BY <1>1, <1>2 DEF MInv, FInv, TInv, GInv, Building
<1>4. PICK d, ins, outs : d = circuit' /\ ins = PortsOf(option).ins /\ outs = PortsOf(option).outs
  OBVIOUS
<1>5. d = SetPorts(circuit, ins, outs) /\ DOMAIN d = DOMAIN circuit
  BY <1>4 DEF Save, SetPorts
<1>6. ASSUME NEW n \in DOMAIN circuit PROVE d[n].gate = circuit[n].gate /\ d[n].fanin = circuit[n].fanin
  <2>1. PICK r : r = circuit[n] /\ DOMAIN r = {"type", "fanin", "gate", "val"}
    BY <1>1 DEF FInv, TInv, GInv, IsCircuit, IsNode
  <2>2. PICK t : d[n] = [r EXCEPT !.type = t]
    BY <1>5, <2>1 DEF SetPorts
  <2>. QED
    BY <2>1, <2>2
<1>7. /\ \A n : Gated(circuit, n) => Gated(d, n)
      /\ \A n, g : HasGate(circuit, n, g) => HasGate(d, n, g)
  BY <1>5, <1>6 DEF Gated, HasGate
<1>8. /\ \A k, i : MadeTo(circuit, k, i) => MadeTo(d, k, i)
      /\ \A k, i : OwnTo(circuit, k, i) => OwnTo(d, k, i)
  <2>1. \A k, j : OwnAt(circuit, k, j) => OwnAt(d, k, j)
    BY <1>7 DEF OwnAt
  <2>. QED
    BY <1>7, <2>1 DEF MadeTo, OwnTo
<1>9. Complete(d, option)
  BY <1>3, <1>5, <1>8 DEF Complete
<1>. QED
  BY <1>1, <1>2, <1>3, <1>4, <1>9 DEF MInv

LEMMA MSteps == MInv /\ [Next]_vars => MInv'
<1>. SUFFICES ASSUME MInv, [Next]_vars PROVE MInv'
  OBVIOUS
<1>1. FInv /\ FInv'
  BY FSteps DEF MInv
<1>2. CASE CreateAll
  <2>1. Building /\ bit' = First(call) /\ UNCHANGED <<phase, left, option, todo, given, saved>>
    BY <1>2 DEF CreateAll
  <2>2. call' = call /\ phase' = "build" /\ todo' # <<>> /\ ~saved'
    BY <1>1, <2>1, SameCalls DEF Building, FInv
  <2>3. First(call) \in Nat
    BY SizesAssumption DEF First
  <2>4. \A j \in First(call) .. (First(call) - 1) : FALSE
    BY <2>3
  <2>. QED
    BY <1>1, <2>1, <2>2, <2>4 DEF MInv, OwnTo
<1>3. ASSUME NEW o \in Options, ReadOption(o) PROVE MInv'
  <2>1. phase = "options" /\ bit' = bit /\ todo' = Calls(o) /\ saved' = FALSE
    BY <1>3 DEF ReadOption
  <2>2. bit = NoBit
    BY <1>1, <2>1 DEF FInv, TInv, GInv, Building
  <2>3. Calls(o) # <<>>
    <3>1. o \in Option
      BY OptionsAssumption
    <3>2. Len(Calls(o)) # 0
      <4>1. CASE o.op = "absmin"
        <5>1. Calls(o) = AbsMinCalls
          BY <4>1 DEF Calls
        <5>. QED
          BY <5>1, AbsMinAt
      <4>2. CASE o.op # "absmin"
        BY <3>1, <4>2, OneCall
      <4>. QED
        BY <4>1, <4>2
    <3>. QED
      BY <3>2, NoCalls, Zenon
  <2>. QED
    BY <1>1, <2>1, <2>2, <2>3 DEF MInv
<1>4. CASE Exhaust \/ AssertFails \/ Finish \/ UNCHANGED vars
  <2>1. (UNCHANGED <<option, todo, circuit, saved>> /\ bit' \in {bit, NoBit} /\ phase' # "build") \/ UNCHANGED vars
    BY <1>4 DEF Exhaust, AssertFails, Finish
  <2>2. UNCHANGED <<option, todo, circuit, saved>> /\ bit' \in {bit, NoBit} /\ (phase' = "build" => phase = "build")
    BY <2>1 DEF vars, control
  <2>3. call' = call
    BY <2>2 DEF call
  <2>. QED
    BY <1>1, <2>2, <2>3 DEF MInv
<1>. QED
  BY <1>2, <1>3, <1>4, BuildOwns, EndCallOwns, SaveOwns DEF Next, Stopped

LEMMA MInitially == Init => MInv
  BY FInitially DEF Init, MInv

----------------------------------------------------------------------------
(* What a gate reads *)

(* What a node of a sound circuit reads, by the gate that it has. *)
Settled(c, v) == IsCircuit(c) /\ Sound(c, v)

LEMMA GateReads ==
  ASSUME NEW c, NEW v, Settled(c, v), NEW n, NEW g \in Gates, NEW ins, HasGate(c, n, Gate(g, ins))
  PROVE  /\ n \in DOMAIN c /\ c[n].val \in {0, 1} /\ c[n].val = Value(g, ValuesOf(c, ins))
         /\ \A j \in DOMAIN ins : ins[j] \in DOMAIN c /\ c[ins[j]].val \in {0, 1}
<1>1. n \in DOMAIN c /\ c[n].gate = g /\ c[n].fanin = ins
  BY GateIs DEF HasGate
<1>2. g # NoGate
  BY DEF Gates, NoGate
<1>3. GateSound(c, n)
  BY <1>1, <1>2 DEF Settled, Sound
<1>. QED
  BY <1>1, <1>3 DEF Settled, GateSound, Firm, Gated, IsCircuit, IsNode

LEMMA BufReads ==
  ASSUME NEW c, NEW v, Settled(c, v), NEW n, NEW a, HasGate(c, n, Gate("buf1", <<a>>))
  PROVE  n \in DOMAIN c /\ a \in DOMAIN c /\ c[a].val \in {0, 1} /\ c[n].val = c[a].val
<1>1. PICK ins, bits : ins = <<a>> /\ bits = <<c[a].val>>
  OBVIOUS
<1>2. "buf1" \in Gates
  BY DEF Gates
<1>3. /\ n \in DOMAIN c /\ c[n].val = Value("buf1", ValuesOf(c, ins))
      /\ \A j \in DOMAIN ins : ins[j] \in DOMAIN c /\ c[ins[j]].val \in {0, 1}
  BY <1>1, <1>2, GateReads
<1>4. bits = ValuesOf(c, ins)
  BY <1>1 DEF ValuesOf
<1>5. DOMAIN ins = {1} /\ ins[1] = a /\ DOMAIN bits = {1} /\ bits[1] = c[a].val
  BY <1>1
<1>6. c[a].val \in {0, 1}
  BY <1>3, <1>5
<1>7. Rows["buf1"] = {<<1>>}
  BY DEF Rows
<1>8. (\E row \in Rows["buf1"] : \A j \in DOMAIN bits : row[j] \in {bits[j], DC}) <=> c[a].val = 1
  BY <1>5, <1>6, <1>7 DEF DC
<1>. QED
  BY <1>3, <1>4, <1>5, <1>6, <1>8 DEF Value

LEMMA PairReads ==
  ASSUME NEW c, NEW v, Settled(c, v), NEW n, NEW g \in Gates, NEW a, NEW b, HasGate(c, n, Gate(g, <<a, b>>))
  PROVE  /\ n \in DOMAIN c /\ c[n].val = Value(g, <<c[a].val, c[b].val>>)
         /\ a \in DOMAIN c /\ b \in DOMAIN c /\ c[a].val \in {0, 1} /\ c[b].val \in {0, 1}
<1>1. PICK ins, bits : ins = <<a, b>> /\ bits = <<c[a].val, c[b].val>>
  OBVIOUS
<1>2. /\ n \in DOMAIN c /\ c[n].val = Value(g, ValuesOf(c, ins))
      /\ \A j \in DOMAIN ins : ins[j] \in DOMAIN c /\ c[ins[j]].val \in {0, 1}
  BY <1>1, GateReads
<1>3. bits = ValuesOf(c, ins)
  BY <1>1 DEF ValuesOf
<1>4. DOMAIN ins = {1, 2} /\ ins[1] = a /\ ins[2] = b
  BY <1>1
<1>. QED
  BY <1>1, <1>2, <1>3, <1>4

LEMMA XorReads ==
  ASSUME NEW c, NEW v, Settled(c, v), NEW n, NEW p, NEW q, NEW r, HasGate(c, n, Gate("xor3", <<p, q, r>>))
  PROVE  /\ n \in DOMAIN c /\ p \in DOMAIN c /\ q \in DOMAIN c /\ r \in DOMAIN c
         /\ c[p].val \in {0, 1} /\ c[q].val \in {0, 1} /\ c[r].val \in {0, 1}
         /\ c[n].val = IF c[p].val + c[q].val + c[r].val \in {1, 3} THEN 1 ELSE 0
<1>1. PICK ins, bits : ins = <<p, q, r>> /\ bits = <<c[p].val, c[q].val, c[r].val>>
  OBVIOUS
<1>2. "xor3" \in Gates
  BY DEF Gates
<1>3. /\ n \in DOMAIN c /\ c[n].val = Value("xor3", ValuesOf(c, ins))
      /\ \A j \in DOMAIN ins : ins[j] \in DOMAIN c /\ c[ins[j]].val \in {0, 1}
  BY <1>1, <1>2, GateReads
<1>4. bits = ValuesOf(c, ins)
  BY <1>1 DEF ValuesOf
<1>5. DOMAIN ins = {1, 2, 3} /\ ins[1] = p /\ ins[2] = q /\ ins[3] = r
  BY <1>1
<1>6. c[p].val \in {0, 1} /\ c[q].val \in {0, 1} /\ c[r].val \in {0, 1}
  BY <1>3, <1>5
<1>7. Value("xor3", bits) = IF c[p].val + c[q].val + c[r].val \in {1, 3} THEN 1 ELSE 0
  BY <1>1, <1>6, XorValue
<1>. QED
  BY <1>3, <1>4, <1>5, <1>6, <1>7

LEMMA AndReads ==
  ASSUME NEW c, NEW v, Settled(c, v), NEW n, NEW a, NEW b, HasGate(c, n, Gate("and2", <<a, b>>))
  PROVE  /\ n \in DOMAIN c /\ a \in DOMAIN c /\ b \in DOMAIN c /\ c[a].val \in {0, 1} /\ c[b].val \in {0, 1}
         /\ c[n].val = IF c[a].val = 1 /\ c[b].val = 1 THEN 1 ELSE 0
<1>1. "and2" \in Gates
  BY DEF Gates
<1>2. /\ n \in DOMAIN c /\ c[n].val = Value("and2", <<c[a].val, c[b].val>>)
      /\ a \in DOMAIN c /\ b \in DOMAIN c /\ c[a].val \in {0, 1} /\ c[b].val \in {0, 1}
  BY <1>1, PairReads
<1>3. PICK p \in {0, 1}, q \in {0, 1} : p = c[a].val /\ q = c[b].val
  BY <1>2
<1>. QED
  BY <1>2, <1>3, AndValue

LEMMA OrReads ==
  ASSUME NEW c, NEW v, Settled(c, v), NEW n, NEW a, NEW b, HasGate(c, n, Gate("or2", <<a, b>>))
  PROVE  /\ n \in DOMAIN c /\ a \in DOMAIN c /\ b \in DOMAIN c /\ c[a].val \in {0, 1} /\ c[b].val \in {0, 1}
         /\ c[n].val = IF c[a].val = 1 \/ c[b].val = 1 THEN 1 ELSE 0
<1>1. "or2" \in Gates
  BY DEF Gates
<1>2. /\ n \in DOMAIN c /\ c[n].val = Value("or2", <<c[a].val, c[b].val>>)
      /\ a \in DOMAIN c /\ b \in DOMAIN c /\ c[a].val \in {0, 1} /\ c[b].val \in {0, 1}
  BY <1>1, PairReads
<1>3. PICK p \in {0, 1}, q \in {0, 1} : p = c[a].val /\ q = c[b].val
  BY <1>2
<1>. QED
  BY <1>2, <1>3, OrValue

(* The multiplexer as createMUX4Node lists its inputs. *)
Selected(bits) ==
  IF bits[1] = 0 THEN (IF bits[2] = 0 THEN bits[6] ELSE bits[5])
  ELSE (IF bits[2] = 0 THEN bits[4] ELSE bits[3])

LEMMA MuxValue ==
  ASSUME NEW bits, DOMAIN bits = 1 .. 6, \A j \in 1 .. 6 : bits[j] \in {0, 1}
  PROVE  Value("mux4", bits) = Selected(bits)
<1>. DEFINE fits(row) == \A j \in DOMAIN bits : row[j] \in {bits[j], DC}
<1>1. PICK s \in {0, 1}, t \in {0, 1}, a \in {0, 1}, b \in {0, 1}, d \in {0, 1}, e \in {0, 1} :
        /\ bits[1] = s /\ bits[2] = t /\ bits[3] = a /\ bits[4] = b /\ bits[5] = d /\ bits[6] = e
  <2>1. 1 \in 1 .. 6 /\ 2 \in 1 .. 6 /\ 3 \in 1 .. 6 /\ 4 \in 1 .. 6 /\ 5 \in 1 .. 6 /\ 6 \in 1 .. 6
    OBVIOUS
  <2>. QED
    BY <2>1
<1>2. Rows["mux4"] = {<<0, 0, DC, DC, DC, 1>>, <<0, 1, DC, DC, 1, DC>>, <<1, 0, DC, 1, DC, DC>>, <<1, 1, 1, DC, DC, DC>>}
  BY DEF Rows
<1>3. \A r1, r2, r3, r4, r5, r6 :
        fits(<<r1, r2, r3, r4, r5, r6>>) <=>
          /\ r1 \in {s, DC} /\ r2 \in {t, DC} /\ r3 \in {a, DC} /\ r4 \in {b, DC} /\ r5 \in {d, DC} /\ r6 \in {e, DC}
  <2>. TAKE r1, r2, r3, r4, r5, r6
  <2>1. PICK row : row = <<r1, r2, r3, r4, r5, r6>>
    OBVIOUS
  <2>2. row[1] = r1 /\ row[2] = r2 /\ row[3] = r3 /\ row[4] = r4 /\ row[5] = r5 /\ row[6] = r6
    BY <2>1
  <2>3. fits(row) <=> \A j \in 1 .. 6 : row[j] \in {bits[j], DC}
    OBVIOUS
  <2>4. 1 .. 6 = {1, 2, 3, 4, 5, 6}
    OBVIOUS
  <2>. HIDE DEF fits
  <2>5. fits(row) <=> /\ row[1] \in {bits[1], DC} /\ row[2] \in {bits[2], DC} /\ row[3] \in {bits[3], DC}
                      /\ row[4] \in {bits[4], DC} /\ row[5] \in {bits[5], DC} /\ row[6] \in {bits[6], DC}
    BY <2>3, <2>4
  <2>. QED
    BY <1>1, <2>1, <2>2, <2>5
<1>. HIDE DEF fits
<1>4. /\ fits(<<0, 0, DC, DC, DC, 1>>) <=> s = 0 /\ t = 0 /\ e = 1
      /\ fits(<<0, 1, DC, DC, 1, DC>>) <=> s = 0 /\ t = 1 /\ d = 1
      /\ fits(<<1, 0, DC, 1, DC, DC>>) <=> s = 1 /\ t = 0 /\ b = 1
      /\ fits(<<1, 1, 1, DC, DC, DC>>) <=> s = 1 /\ t = 1 /\ a = 1
  BY <1>3 DEF DC
<1>5. (\E row \in Rows["mux4"] : fits(row))
        <=> \/ fits(<<0, 0, DC, DC, DC, 1>>) \/ fits(<<0, 1, DC, DC, 1, DC>>)
            \/ fits(<<1, 0, DC, 1, DC, DC>>) \/ fits(<<1, 1, 1, DC, DC, DC>>)
  BY <1>2, Zenon
<1>6. Value("mux4", bits) = IF \E row \in Rows["mux4"] : fits(row) THEN 1 ELSE 0
  BY DEF Value, fits
<1>. QED
  BY <1>1, <1>4, <1>5, <1>6 DEF Selected

LEMMA MuxReads ==
  ASSUME NEW c, NEW v, Settled(c, v), NEW n, NEW s, NEW t, NEW a, NEW b, NEW d, NEW e,
         HasGate(c, n, Gate("mux4", <<s, t, a, b, d, e>>))
  PROVE  c[n].val = IF c[s].val = 0 THEN (IF c[t].val = 0 THEN c[e].val ELSE c[d].val)
                    ELSE (IF c[t].val = 0 THEN c[b].val ELSE c[a].val)
<1>1. PICK ins, bits : /\ ins = <<s, t, a, b, d, e>>
                       /\ bits = <<c[s].val, c[t].val, c[a].val, c[b].val, c[d].val, c[e].val>>
  OBVIOUS
<1>2. "mux4" \in Gates
  BY DEF Gates
<1>3. /\ n \in DOMAIN c /\ c[n].val = Value("mux4", ValuesOf(c, ins))
      /\ \A j \in DOMAIN ins : ins[j] \in DOMAIN c /\ c[ins[j]].val \in {0, 1}
  BY <1>1, <1>2, GateReads
<1>4. bits = ValuesOf(c, ins)
  BY <1>1 DEF ValuesOf
<1>5. /\ DOMAIN ins = 1 .. 6 /\ ins[1] = s /\ ins[2] = t /\ ins[3] = a /\ ins[4] = b /\ ins[5] = d /\ ins[6] = e
  BY <1>1
<1>6. 1 \in 1 .. 6 /\ 2 \in 1 .. 6 /\ 3 \in 1 .. 6 /\ 4 \in 1 .. 6 /\ 5 \in 1 .. 6 /\ 6 \in 1 .. 6
  OBVIOUS
<1>7. /\ c[s].val \in {0, 1} /\ c[t].val \in {0, 1} /\ c[a].val \in {0, 1}
      /\ c[b].val \in {0, 1} /\ c[d].val \in {0, 1} /\ c[e].val \in {0, 1}
  BY <1>3, <1>5, <1>6
<1>8. /\ DOMAIN bits = 1 .. 6 /\ bits[1] = c[s].val /\ bits[2] = c[t].val /\ bits[3] = c[a].val
      /\ bits[4] = c[b].val /\ bits[5] = c[d].val /\ bits[6] = c[e].val
  BY <1>1
<1>9. \A j \in 1 .. 6 : j \in {1, 2, 3, 4, 5, 6}
  OBVIOUS
<1>10. Value("mux4", bits) = Selected(bits)
  BY <1>7, <1>8, <1>9, MuxValue
<1>. QED
  BY <1>3, <1>4, <1>8, <1>10 DEF Selected

(* The gate that a name must have is the gate that it has. *)
LEMMA CanonReads ==
  ASSUME NEW c, NEW v, Settled(c, v), NEW n, Gated(c, n), ~IsSink(n), NEW g, NEW ins, Canon(n) = Gate(g, ins)
  PROVE  HasGate(c, n, Gate(g, ins))
<1>1. n \in DOMAIN c /\ GateSound(c, n)
  BY DEF Gated, Settled, Sound
<1>2. Gate(c[n].gate, c[n].fanin) = Gate(g, ins)
  BY <1>1 DEF GateSound
<1>3. c[n].gate = g /\ c[n].fanin = ins
  BY <1>2, GateIs
<1>. QED
  BY <1>1, <1>3, GateIs DEF HasGate

(* The constants. *)
LEMMA ConstantReads ==
  ASSUME NEW c, NEW v, Settled(c, v), NEW n \in DOMAIN c
  PROVE  (IsZero(n) => c[n].val = 0) /\ (n = Wire("one") => c[n].val = 1)
<1>1. n = Wire("one") => IsOne(n) /\ ~IsZero(n)
  <2>1. Wire("one")[1] = <<"one">>
    BY WireIs, BitIs
  <2>2. \A u, w : <<u>> = <<w>> => u = w
    OBVIOUS
  <2>3. <<"one">> \notin ZeroPrefixes
    BY <2>2 DEF ZeroPrefixes
  <2>. QED
    BY <2>1, <2>3 DEF IsOne, IsZero
<1>. QED
  BY <1>1 DEF Settled, Sound, LeafSound

----------------------------------------------------------------------------
(* Adders, subtractors and the bits of numbers *)

(* One bit of a finished adder: the carry is what or2 makes of its two halves,  *)
(* whatever node that gate drives.                                           *)
LEMMA AdderReads ==
  ASSUME NEW c, NEW v, Settled(c, v), NEW a, NEW b, NEW ci, NEW s, NEW ab, NEW axb, NEW caxb, c[Wire("zero")].val = 0,
         HasGate(c, s, Gate("xor3", <<a, b, ci>>)), HasGate(c, ab, Gate("and2", <<a, b>>)),
         HasGate(c, axb, Gate("xor3", <<Wire("zero"), a, b>>)), HasGate(c, caxb, Gate("and2", <<ci, axb>>))
  PROVE  /\ c[a].val \in {0, 1} /\ c[b].val \in {0, 1} /\ c[ci].val \in {0, 1} /\ c[s].val \in {0, 1}
         /\ \E co \in {0, 1} : /\ c[a].val + c[b].val + c[ci].val = c[s].val + 2 * co
                               /\ \A n : HasGate(c, n, Gate("or2", <<ab, caxb>>)) => c[n].val = co
<1>1. /\ c[a].val \in {0, 1} /\ c[b].val \in {0, 1} /\ c[ci].val \in {0, 1}
      /\ c[s].val = IF c[a].val + c[b].val + c[ci].val \in {1, 3} THEN 1 ELSE 0
  BY XorReads
<1>2. c[ab].val = IF c[a].val = 1 /\ c[b].val = 1 THEN 1 ELSE 0
  BY AndReads
<1>3. PICK zero : zero = Wire("zero")
  OBVIOUS
<1>4. c[axb].val = IF c[zero].val + c[a].val + c[b].val \in {1, 3} THEN 1 ELSE 0
  <2>1. HasGate(c, axb, Gate("xor3", <<zero, a, b>>))
    BY <1>3
  <2>. QED
    BY <2>1, XorReads
<1>5. c[caxb].val = IF c[ci].val = 1 /\ c[axb].val = 1 THEN 1 ELSE 0
  BY AndReads
<1>6. PICK va \in {0, 1}, vb \in {0, 1}, vi \in {0, 1} : va = c[a].val /\ vb = c[b].val /\ vi = c[ci].val
  BY <1>1
<1>7. PICK co \in {0, 1} : co = IF c[ab].val = 1 \/ c[caxb].val = 1 THEN 1 ELSE 0
  OBVIOUS
<1>8. c[axb].val = IF 0 + va + vb \in {1, 3} THEN 1 ELSE 0
  BY <1>3, <1>4, <1>6
<1>9. va + vb + vi = c[s].val + 2 * co
  <2>1. PICK vs, vab, vx, vcx : vs = c[s].val /\ vab = c[ab].val /\ vx = c[axb].val /\ vcx = c[caxb].val
    OBVIOUS
  <2>2. /\ vs = IF va + vb + vi \in {1, 3} THEN 1 ELSE 0
        /\ vab = IF va = 1 /\ vb = 1 THEN 1 ELSE 0
        /\ vx = IF 0 + va + vb \in {1, 3} THEN 1 ELSE 0
        /\ vcx = IF vi = 1 /\ vx = 1 THEN 1 ELSE 0
        /\ co = IF vab = 1 \/ vcx = 1 THEN 1 ELSE 0
    BY <1>1, <1>2, <1>5, <1>6, <1>7, <1>8, <2>1
  <2>3. va + vb + vi = vs + 2 * co
    BY <2>2
  <2>. QED
    BY <2>1, <2>3
<1>10. \A n : HasGate(c, n, Gate("or2", <<ab, caxb>>)) => c[n].val = co
  BY <1>7, OrReads
<1>11. c[s].val \in {0, 1}
  BY <1>1
<1>. QED
  BY <1>1, <1>6, <1>9, <1>10, <1>11

SubtractorAt(c, a, b, bi, s, axb, naxb, t1, na, t2, bo) ==
  /\ HasGate(c, s, Gate("xor3", <<a, b, bi>>)) /\ HasGate(c, axb, Gate("xor3", <<Wire("zero"), a, b>>))
  /\ HasGate(c, naxb, Gate("xor3", <<Wire("zero"), axb, Wire("one")>>)) /\ HasGate(c, t1, Gate("and2", <<bi, naxb>>))
  /\ HasGate(c, na, Gate("xor3", <<Wire("zero"), a, Wire("one")>>)) /\ HasGate(c, t2, Gate("and2", <<na, b>>))
  /\ HasGate(c, bo, Gate("or2", <<t1, t2>>))

LEMMA SubtractorReads ==
  ASSUME NEW c, NEW v, Settled(c, v), NEW a, NEW b, NEW bi, NEW s, NEW axb, NEW naxb, NEW t1, NEW na, NEW t2, NEW bo,
         c[Wire("zero")].val = 0, c[Wire("one")].val = 1, SubtractorAt(c, a, b, bi, s, axb, naxb, t1, na, t2, bo)
  PROVE  /\ c[a].val \in {0, 1} /\ c[b].val \in {0, 1} /\ c[bi].val \in {0, 1} /\ c[s].val \in {0, 1} /\ c[bo].val \in {0, 1}
         /\ c[a].val - c[b].val - c[bi].val = c[s].val - 2 * c[bo].val
<1>. USE DEF SubtractorAt
<1>1. /\ c[a].val \in {0, 1} /\ c[b].val \in {0, 1} /\ c[bi].val \in {0, 1}
      /\ c[s].val = IF c[a].val + c[b].val + c[bi].val \in {1, 3} THEN 1 ELSE 0
  BY XorReads
<1>2. PICK zero, one : zero = Wire("zero") /\ one = Wire("one")
  OBVIOUS
<1>3. c[axb].val = IF c[zero].val + c[a].val + c[b].val \in {1, 3} THEN 1 ELSE 0
  <2>1. HasGate(c, axb, Gate("xor3", <<zero, a, b>>))
    BY <1>2
  <2>. QED
    BY <2>1, XorReads
<1>4. c[naxb].val = IF c[zero].val + c[axb].val + c[one].val \in {1, 3} THEN 1 ELSE 0
  <2>1. HasGate(c, naxb, Gate("xor3", <<zero, axb, one>>))
    BY <1>2
  <2>. QED
    BY <2>1, XorReads
<1>5. c[t1].val = IF c[bi].val = 1 /\ c[naxb].val = 1 THEN 1 ELSE 0
  BY AndReads
<1>6. c[na].val = IF c[zero].val + c[a].val + c[one].val \in {1, 3} THEN 1 ELSE 0
  <2>1. HasGate(c, na, Gate("xor3", <<zero, a, one>>))
    BY <1>2
  <2>. QED
    BY <2>1, XorReads
<1>7. c[t2].val = IF c[na].val = 1 /\ c[b].val = 1 THEN 1 ELSE 0
  BY AndReads
<1>8. c[bo].val = IF c[t1].val = 1 \/ c[t2].val = 1 THEN 1 ELSE 0
  BY OrReads
<1>9. PICK va \in {0, 1}, vb \in {0, 1}, vi \in {0, 1} : va = c[a].val /\ vb = c[b].val /\ vi = c[bi].val
  BY <1>1
<1>10. c[zero].val = 0 /\ c[one].val = 1
  BY <1>2
<1>11. va - vb - vi = c[s].val - 2 * c[bo].val /\ c[bo].val \in {0, 1} /\ c[s].val \in {0, 1}
  <2>1. PICK vs, vx, vnx, v1, vna, v2, vbo :
          /\ vs = c[s].val /\ vx = c[axb].val /\ vnx = c[naxb].val /\ v1 = c[t1].val
          /\ vna = c[na].val /\ v2 = c[t2].val /\ vbo = c[bo].val
    OBVIOUS
  <2>2. /\ vs = IF va + vb + vi \in {1, 3} THEN 1 ELSE 0
        /\ vx = IF 0 + va + vb \in {1, 3} THEN 1 ELSE 0
        /\ vnx = IF 0 + vx + 1 \in {1, 3} THEN 1 ELSE 0
        /\ v1 = IF vi = 1 /\ vnx = 1 THEN 1 ELSE 0
        /\ vna = IF 0 + va + 1 \in {1, 3} THEN 1 ELSE 0
        /\ v2 = IF vna = 1 /\ vb = 1 THEN 1 ELSE 0
        /\ vbo = IF v1 = 1 \/ v2 = 1 THEN 1 ELSE 0
    BY <1>1, <1>3, <1>4, <1>5, <1>6, <1>7, <1>8, <1>9, <1>10, <2>1
  <2>3. vbo \in {0, 1} /\ vs \in {0, 1} /\ va - vb - vi = vs - 2 * vbo
    BY <2>2
  <2>. QED
    BY <2>1, <2>3
<1>. QED
  BY <1>1, <1>9, <1>11

(* The bits with some name. *)
Word(c, p) == [i \in Nat |-> c[Bit(p, i)].val]

(* A finished adder of any width. *)
AddsTo(c, k) ==
  \A j \in 0 .. (k.bits - 1) : HasGate(c, Bit(k.out, j), Gate("xor3", <<Bit(k.a, j), Bit(k.b, j), CarryIn(k, j)>>))

LEMMA AdderAdds ==
  ASSUME NEW c, NEW v, Settled(c, v), NEW k \in ProperCalls, ChainCall(k), k.op = "add", k.bits # 0,
         MadeTo(c, k, End(k)), AddsTo(c, k)
  PROVE  LET n == k.bits
         IN \E co \in {0, 1} :
              /\ NumberOf(Word(c, k.a), n) + NumberOf(Word(c, k.b), n) + c[k.cin].val = NumberOf(Word(c, k.out), n) + 2 ^ n * co
              /\ HasGate(c, k.cout, Gate("or2", <<Bit(Suffixed(k.out, "_AB"), n - 1), Bit(Suffixed(k.out, "_ciAxorB"), n - 1)>>))
                   => c[k.cout].val = co
              /\ AreBits(Word(c, k.a), n) /\ AreBits(Word(c, k.b), n) /\ AreBits(Word(c, k.out), n) /\ c[k.cin].val \in {0, 1}
<1>1. PICK n : n = k.bits /\ n \in 1 .. (UintMod - 1) /\ n \in Nat /\ n - 1 \in Nat /\ n # 0
  BY SizesAssumption DEF ProperCalls, Call
<1>2. First(k) = 0 /\ End(k) = n /\ Less(k.bits) = n - 1
  BY <1>1, LessIsOneLess DEF First, End
<1>. DEFINE wire(w, j) == Bit(Suffixed(k.out, w), j)
            ors(j) == Gate("or2", <<wire("_AB", j), wire("_ciAxorB", j)>>)
<1>3. ASSUME NEW j \in 0 .. (n - 1)
      PROVE  /\ HasGate(c, Bit(k.out, j), Gate("xor3", <<Bit(k.a, j), Bit(k.b, j), CarryIn(k, j)>>))
             /\ HasGate(c, wire("_AB", j), Gate("and2", <<Bit(k.a, j), Bit(k.b, j)>>))
             /\ HasGate(c, wire("_AxorB", j), Gate("xor3", <<Wire("zero"), Bit(k.a, j), Bit(k.b, j)>>))
             /\ HasGate(c, wire("_ciAxorB", j), Gate("and2", <<CarryIn(k, j), wire("_AxorB", j)>>))
             /\ j # n - 1 => HasGate(c, wire("_c", j), ors(j))
  <2>1. \A m \in OutsAt(k, j) : Gated(c, m)
    BY <1>1, <1>2 DEF MadeTo
  <2>2. Gated(c, wire("_AB", j)) /\ Gated(c, wire("_AxorB", j)) /\ Gated(c, wire("_ciAxorB", j)) /\ Gated(c, CarryOut(k, j))
    BY <2>1 DEF OutsAt
  <2>3. /\ ~IsSink(wire("_AB", j)) /\ Canon(wire("_AB", j)) = Gate("and2", <<Bit(k.a, j), Bit(k.b, j)>>)
        /\ ~IsSink(wire("_AxorB", j)) /\ Canon(wire("_AxorB", j)) = Gate("xor3", <<Wire("zero"), Bit(k.a, j), Bit(k.b, j)>>)
        /\ ~IsSink(wire("_ciAxorB", j)) /\ Canon(wire("_ciAxorB", j)) = Gate("and2", <<CarryIn(k, j), wire("_AxorB", j)>>)
        /\ ~IsSink(CarryOut(k, j)) => Canon(CarryOut(k, j)) = ors(j)
    BY AdderCanon
  <2>4. j # n - 1 => CarryOut(k, j) = wire("_c", j) /\ ~IsSink(CarryOut(k, j))
    <3>1. j # n - 1 => CarryOut(k, j) = wire("_c", j)
      BY <1>2 DEF CarryOut, Suffixed
    <3>2. ~IsSink(wire("_c", j))
      BY CanonInner DEF ChainCall, InnerWords
    <3>. QED
      BY <3>1, <3>2
  <2>5. AddsTo(c, k) /\ j \in 0 .. (k.bits - 1)
    BY <1>1
  <2>. HIDE DEF wire
  <2>6. HasGate(c, Bit(k.out, j), Gate("xor3", <<Bit(k.a, j), Bit(k.b, j), CarryIn(k, j)>>))
    BY <2>5 DEF AddsTo
  <2>7. HasGate(c, wire("_AB", j), Gate("and2", <<Bit(k.a, j), Bit(k.b, j)>>))
    BY <2>2, <2>3, CanonReads
  <2>8. HasGate(c, wire("_AxorB", j), Gate("xor3", <<Wire("zero"), Bit(k.a, j), Bit(k.b, j)>>))
    BY <2>2, <2>3, CanonReads
  <2>9. HasGate(c, wire("_ciAxorB", j), Gate("and2", <<CarryIn(k, j), wire("_AxorB", j)>>))
    BY <2>2, <2>3, CanonReads
  <2>10. j # n - 1 => HasGate(c, wire("_c", j), ors(j))
    BY <2>2, <2>3, <2>4, CanonReads
  <2>. QED
    BY <2>6, <2>7, <2>8, <2>9, <2>10
<1>4. c[Wire("zero")].val = 0
  <2>1. 0 \in 0 .. (n - 1)
    BY <1>1
  <2>2. HasGate(c, wire("_AxorB", 0), Gate("xor3", <<Wire("zero"), Bit(k.a, 0), Bit(k.b, 0)>>))
    BY <1>3, <2>1
  <2>3. Wire("zero") \in DOMAIN c
    <3>. HIDE DEF wire
    <3>1. PICK m, p, q, zero : m = wire("_AxorB", 0) /\ p = Bit(k.a, 0) /\ q = Bit(k.b, 0) /\ zero = Wire("zero")
      OBVIOUS
    <3>2. HasGate(c, m, Gate("xor3", <<zero, p, q>>))
      BY <2>2, <3>1
    <3>3. zero \in DOMAIN c
      BY <3>2, XorReads
    <3>. QED
      BY <3>1, <3>3
  <2>4. IsZero(Wire("zero"))
    BY WireIs, BitIs DEF IsZero, ZeroPrefixes
  <2>. QED
    BY <2>3, <2>4, ConstantReads
<1>. HIDE DEF wire
<1>5. ASSUME NEW j \in 0 .. (n - 1)
      PROVE  /\ c[Bit(k.a, j)].val \in {0, 1} /\ c[Bit(k.b, j)].val \in {0, 1} /\ c[CarryIn(k, j)].val \in {0, 1}
             /\ c[Bit(k.out, j)].val \in {0, 1}
             /\ \E co \in {0, 1} :
                  /\ c[Bit(k.a, j)].val + c[Bit(k.b, j)].val + c[CarryIn(k, j)].val = c[Bit(k.out, j)].val + 2 * co
                  /\ \A m : HasGate(c, m, ors(j)) => c[m].val = co
  <2>1. PICK a, b, ci, s, ab, axb, caxb :
          /\ a = Bit(k.a, j) /\ b = Bit(k.b, j) /\ ci = CarryIn(k, j) /\ s = Bit(k.out, j)
          /\ ab = wire("_AB", j) /\ axb = wire("_AxorB", j) /\ caxb = wire("_ciAxorB", j)
    OBVIOUS
  <2>2. /\ HasGate(c, s, Gate("xor3", <<a, b, ci>>)) /\ HasGate(c, ab, Gate("and2", <<a, b>>))
        /\ HasGate(c, axb, Gate("xor3", <<Wire("zero"), a, b>>)) /\ HasGate(c, caxb, Gate("and2", <<ci, axb>>))
    BY <1>3, <2>1
  <2>3. /\ c[a].val \in {0, 1} /\ c[b].val \in {0, 1} /\ c[ci].val \in {0, 1} /\ c[s].val \in {0, 1}
        /\ \E co \in {0, 1} : /\ c[a].val + c[b].val + c[ci].val = c[s].val + 2 * co
                              /\ \A m : HasGate(c, m, Gate("or2", <<ab, caxb>>)) => c[m].val = co
    BY <1>4, <2>2, AdderReads
  <2>. QED
    BY <2>1, <2>3
<1>. HIDE DEF ors
<1>6. n - 1 \in 0 .. (n - 1)
  BY <1>1
<1>7. PICK co \in {0, 1} :
        /\ c[Bit(k.a, n - 1)].val + c[Bit(k.b, n - 1)].val + c[CarryIn(k, n - 1)].val = c[Bit(k.out, n - 1)].val + 2 * co
        /\ \A m : HasGate(c, m, ors(n - 1)) => c[m].val = co
  BY <1>5, <1>6
<1>. DEFINE va == Word(c, k.a)
            vb == Word(c, k.b)
            vs == Word(c, k.out)
            vc == [j \in Nat |-> IF j = n THEN co ELSE c[CarryIn(k, j)].val]
<1>8. AreBits(va, n) /\ AreBits(vb, n) /\ AreBits(vs, n) /\ AreBits(vc, n + 1)
  <2>1. \A j \in 0 .. (n - 1) : j \in Nat
    OBVIOUS
  <2>2. \A j \in 0 .. (n - 1) : va[j] \in {0, 1} /\ vb[j] \in {0, 1} /\ vs[j] \in {0, 1}
    BY <1>5, <2>1 DEF Word
  <2>3. \A j \in 0 .. ((n + 1) - 1) : vc[j] \in {0, 1}
    <3>. TAKE j \in 0 .. ((n + 1) - 1)
    <3>1. j \in Nat /\ (j = n \/ j \in 0 .. (n - 1))
      BY <1>1
    <3>. QED
      BY <1>5, <3>1
  <2>. QED
    BY <2>2, <2>3 DEF AreBits
<1>9. ASSUME NEW j \in 0 .. (n - 1) PROVE va[j] + vb[j] + vc[j] = vs[j] + 2 * vc[j + 1]
  <2>1. j \in Nat /\ j # n /\ j + 1 \in Nat /\ (j + 1 = n <=> j = n - 1)
    BY <1>1
  <2>2. va[j] = c[Bit(k.a, j)].val /\ vb[j] = c[Bit(k.b, j)].val /\ vs[j] = c[Bit(k.out, j)].val /\ vc[j] = c[CarryIn(k, j)].val
    BY <2>1 DEF Word
  <2>3. CASE j = n - 1
    <3>1. vc[j + 1] = co
      BY <2>1, <2>3
    <3>. QED
      BY <1>7, <2>2, <2>3, <3>1
  <2>4. CASE j # n - 1
    <3>1. CarryIn(k, j + 1) = wire("_c", j)
      BY <2>1 DEF CarryIn, wire, Suffixed
    <3>2. vc[j + 1] = c[wire("_c", j)].val
      BY <2>1, <2>4, <3>1
    <3>3. HasGate(c, wire("_c", j), ors(j))
      BY <1>3, <2>4 DEF ors
    <3>4. c[Bit(k.a, j)].val + c[Bit(k.b, j)].val + c[CarryIn(k, j)].val = c[Bit(k.out, j)].val + 2 * c[wire("_c", j)].val
      <4>1. PICK d \in {0, 1} :
              /\ c[Bit(k.a, j)].val + c[Bit(k.b, j)].val + c[CarryIn(k, j)].val = c[Bit(k.out, j)].val + 2 * d
              /\ \A m : HasGate(c, m, ors(j)) => c[m].val = d
        BY <1>5
      <4>. QED
        BY <3>3, <4>1
    <3>. QED
      BY <2>2, <3>2, <3>4
  <2>. QED
    BY <2>3, <2>4
<1>10. vc[0] = c[k.cin].val /\ vc[n] = co
  <2>1. 0 \in Nat /\ 0 # n /\ CarryIn(k, 0) = k.cin
    BY <1>1 DEF CarryIn
  <2>. QED
    BY <1>1, <2>1
<1>11. c[k.cin].val \in {0, 1}
  <2>1. 0 \in 0 .. (n - 1) /\ CarryIn(k, 0) = k.cin
    BY <1>1 DEF CarryIn
  <2>. QED
    BY <1>5, <2>1
<1>. HIDE DEF va, vb, vs, vc
<1>12. NumberOf(va, n) + NumberOf(vb, n) + vc[0] = NumberOf(vs, n) + 2 ^ n * vc[n]
  <2>1. PICK ua, ub, us, uc : ua = va /\ ub = vb /\ us = vs /\ uc = vc
    OBVIOUS
  <2>2. /\ n \in Nat /\ AreBits(ua, n) /\ AreBits(ub, n) /\ AreBits(us, n) /\ AreBits(uc, n + 1)
        /\ \A j \in 0 .. (n - 1) : ua[j] + ub[j] + uc[j] = us[j] + 2 * uc[j + 1]
    BY <1>1, <1>8, <1>9, <2>1
  <2>3. NumberOf(ua, n) + NumberOf(ub, n) + uc[0] = NumberOf(us, n) + 2 ^ n * uc[n]
    BY <2>2, RippleSum
  <2>. QED
    BY <2>1, <2>3
<1>13. HasGate(c, k.cout, Gate("or2", <<Bit(Suffixed(k.out, "_AB"), n - 1), Bit(Suffixed(k.out, "_ciAxorB"), n - 1)>>))
         => c[k.cout].val = co
  BY <1>7 DEF ors, wire
<1>. QED
  BY <1>1, <1>8, <1>10, <1>11, <1>12, <1>13 DEF va, vb, vs

(* A finished subtractor of any width; one of no bits subtracts nothing.      *)
SubsTo(c, k) ==
  \A j \in 0 .. (k.bits - 1) : HasGate(c, Bit(k.out, j), Gate("xor3", <<Bit(k.a, j), Bit(k.b, j), BorrowIn(k, j)>>))

LEMMA SubtractorSubtracts ==
  ASSUME NEW c, NEW v, Settled(c, v), NEW k \in ProperCalls, ChainCall(k), k.op = "sub", Created(k) \subseteq DOMAIN c,
         MadeTo(c, k, End(k)), SubsTo(c, k)
  PROVE  LET n == k.bits
         IN /\ \E bo \in {0, 1} :
                 NumberOf(Word(c, k.a), n) - NumberOf(Word(c, k.b), n) = NumberOf(Word(c, k.out), n) - 2 ^ n * bo
            /\ AreBits(Word(c, k.a), n) /\ AreBits(Word(c, k.b), n) /\ AreBits(Word(c, k.out), n)
<1>1. PICK n : n = k.bits /\ n \in Nat
  BY SizesAssumption DEF ProperCalls, Call
<1>2. First(k) = 0 /\ End(k) = n
  BY <1>1 DEF First, End
<1>. DEFINE wire(w, j) == Bit(Suffixed(k.out, w), j)
<1>3. ASSUME NEW j \in 0 .. (n - 1)
      PROVE  /\ HasGate(c, Bit(k.out, j), Gate("xor3", <<Bit(k.a, j), Bit(k.b, j), BorrowIn(k, j)>>))
             /\ HasGate(c, wire("_AxorB", j), Gate("xor3", <<Wire("zero"), Bit(k.a, j), Bit(k.b, j)>>))
             /\ HasGate(c, wire("_notAxorB", j), Gate("xor3", <<Wire("zero"), wire("_AxorB", j), Wire("one")>>))
             /\ HasGate(c, wire("_temp1", j), Gate("and2", <<BorrowIn(k, j), wire("_notAxorB", j)>>))
             /\ HasGate(c, wire("_notA", j), Gate("xor3", <<Wire("zero"), Bit(k.a, j), Wire("one")>>))
             /\ HasGate(c, wire("_temp2", j), Gate("and2", <<wire("_notA", j), Bit(k.b, j)>>))
             /\ HasGate(c, wire("_Bo", j), Gate("or2", <<wire("_temp1", j), wire("_temp2", j)>>))
  <2>1. \A m \in OutsAt(k, j) : Gated(c, m)
    BY <1>1, <1>2 DEF MadeTo
  <2>2. /\ Gated(c, wire("_AxorB", j)) /\ Gated(c, wire("_notAxorB", j)) /\ Gated(c, wire("_temp1", j))
        /\ Gated(c, wire("_notA", j)) /\ Gated(c, wire("_temp2", j)) /\ Gated(c, wire("_Bo", j))
    BY <2>1 DEF OutsAt
  <2>3. /\ ~IsSink(wire("_AxorB", j)) /\ Canon(wire("_AxorB", j)) = Gate("xor3", <<Wire("zero"), Bit(k.a, j), Bit(k.b, j)>>)
        /\ ~IsSink(wire("_notAxorB", j))
        /\ Canon(wire("_notAxorB", j)) = Gate("xor3", <<Wire("zero"), wire("_AxorB", j), Wire("one")>>)
        /\ ~IsSink(wire("_temp1", j)) /\ Canon(wire("_temp1", j)) = Gate("and2", <<BorrowIn(k, j), wire("_notAxorB", j)>>)
        /\ ~IsSink(wire("_notA", j)) /\ Canon(wire("_notA", j)) = Gate("xor3", <<Wire("zero"), Bit(k.a, j), Wire("one")>>)
        /\ ~IsSink(wire("_temp2", j)) /\ Canon(wire("_temp2", j)) = Gate("and2", <<wire("_notA", j), Bit(k.b, j)>>)
        /\ ~IsSink(wire("_Bo", j)) /\ Canon(wire("_Bo", j)) = Gate("or2", <<wire("_temp1", j), wire("_temp2", j)>>)
    BY SubtractorCanon
  <2>4. SubsTo(c, k) /\ j \in 0 .. (k.bits - 1)
    BY <1>1
  <2>. HIDE DEF wire
  <2>5. HasGate(c, Bit(k.out, j), Gate("xor3", <<Bit(k.a, j), Bit(k.b, j), BorrowIn(k, j)>>))
    BY <2>4 DEF SubsTo
  <2>6. HasGate(c, wire("_AxorB", j), Gate("xor3", <<Wire("zero"), Bit(k.a, j), Bit(k.b, j)>>))
    BY <2>2, <2>3, CanonReads
  <2>7. HasGate(c, wire("_notAxorB", j), Gate("xor3", <<Wire("zero"), wire("_AxorB", j), Wire("one")>>))
    BY <2>2, <2>3, CanonReads
  <2>8. HasGate(c, wire("_temp1", j), Gate("and2", <<BorrowIn(k, j), wire("_notAxorB", j)>>))
    BY <2>2, <2>3, CanonReads
  <2>9. HasGate(c, wire("_notA", j), Gate("xor3", <<Wire("zero"), Bit(k.a, j), Wire("one")>>))
    BY <2>2, <2>3, CanonReads
  <2>10. HasGate(c, wire("_temp2", j), Gate("and2", <<wire("_notA", j), Bit(k.b, j)>>))
    BY <2>2, <2>3, CanonReads
  <2>11. HasGate(c, wire("_Bo", j), Gate("or2", <<wire("_temp1", j), wire("_temp2", j)>>))
    BY <2>2, <2>3, CanonReads
  <2>. QED
    BY <2>5, <2>6, <2>7, <2>8, <2>9, <2>10, <2>11
<1>4. c[Wire("zero")].val = 0 /\ c[Wire("one")].val = 1
  <2>1. Wire("zero") \in DOMAIN c /\ Wire("one") \in DOMAIN c
    BY DEF Created
  <2>2. IsZero(Wire("zero"))
    BY WireIs, BitIs DEF IsZero, ZeroPrefixes
  <2>. QED
    BY <2>1, <2>2, ConstantReads
<1>. HIDE DEF wire
<1>5. ASSUME NEW j \in 0 .. (n - 1)
      PROVE  /\ c[Bit(k.a, j)].val \in {0, 1} /\ c[Bit(k.b, j)].val \in {0, 1} /\ c[BorrowIn(k, j)].val \in {0, 1}
             /\ c[Bit(k.out, j)].val \in {0, 1} /\ c[wire("_Bo", j)].val \in {0, 1}
             /\ c[Bit(k.a, j)].val - c[Bit(k.b, j)].val - c[BorrowIn(k, j)].val
                  = c[Bit(k.out, j)].val - 2 * c[wire("_Bo", j)].val
  <2>1. PICK a, b, bi, s, axb, naxb, t1, na, t2, bo :
          /\ a = Bit(k.a, j) /\ b = Bit(k.b, j) /\ bi = BorrowIn(k, j) /\ s = Bit(k.out, j)
          /\ axb = wire("_AxorB", j) /\ naxb = wire("_notAxorB", j) /\ t1 = wire("_temp1", j)
          /\ na = wire("_notA", j) /\ t2 = wire("_temp2", j) /\ bo = wire("_Bo", j)
    OBVIOUS
  <2>2. /\ HasGate(c, s, Gate("xor3", <<a, b, bi>>)) /\ HasGate(c, axb, Gate("xor3", <<Wire("zero"), a, b>>))
        /\ HasGate(c, naxb, Gate("xor3", <<Wire("zero"), axb, Wire("one")>>)) /\ HasGate(c, t1, Gate("and2", <<bi, naxb>>))
        /\ HasGate(c, na, Gate("xor3", <<Wire("zero"), a, Wire("one")>>)) /\ HasGate(c, t2, Gate("and2", <<na, b>>))
        /\ HasGate(c, bo, Gate("or2", <<t1, t2>>))
    BY <1>3, <2>1
  <2>4. SubtractorAt(c, a, b, bi, s, axb, naxb, t1, na, t2, bo)
    BY <2>2 DEF SubtractorAt
  <2>3. /\ c[a].val \in {0, 1} /\ c[b].val \in {0, 1} /\ c[bi].val \in {0, 1} /\ c[s].val \in {0, 1} /\ c[bo].val \in {0, 1}
        /\ c[a].val - c[b].val - c[bi].val = c[s].val - 2 * c[bo].val
    BY <1>4, <2>4, SubtractorReads
  <2>. QED
    BY <2>1, <2>3
<1>. DEFINE va == Word(c, k.a)
            vb == Word(c, k.b)
            vs == Word(c, k.out)
            vc == [j \in Nat |-> c[BorrowIn(k, j)].val]
<1>6. BorrowIn(k, 0) = Wire("zero") /\ \A j \in Nat : BorrowIn(k, j + 1) = wire("_Bo", j)
  <2>1. \A j \in Nat : j + 1 # 0 /\ (j + 1) - 1 = j
    OBVIOUS
  <2>. QED
    BY <2>1 DEF BorrowIn, wire, Suffixed
<1>7. AreBits(va, n) /\ AreBits(vb, n) /\ AreBits(vs, n) /\ AreBits(vc, n + 1)
  <2>1. \A j \in 0 .. (n - 1) : j \in Nat
    OBVIOUS
  <2>2. \A j \in 0 .. (n - 1) : va[j] \in {0, 1} /\ vb[j] \in {0, 1} /\ vs[j] \in {0, 1}
    BY <1>5, <2>1 DEF Word
  <2>3. \A j \in 0 .. ((n + 1) - 1) : vc[j] \in {0, 1}
    <3>. TAKE j \in 0 .. ((n + 1) - 1)
    <3>1. j \in Nat /\ (j = 0 \/ (j - 1 \in Nat /\ j - 1 \in 0 .. (n - 1) /\ (j - 1) + 1 = j))
      BY <1>1
    <3>2. CASE j = 0
      BY <1>4, <1>6, <3>2
    <3>3. CASE j # 0
      <4>1. PICK i \in Nat : i = j - 1 /\ i \in 0 .. (n - 1) /\ i + 1 = j
        BY <3>1, <3>3
      <4>. QED
        BY <1>5, <1>6, <3>1, <4>1
    <3>. QED
      BY <3>2, <3>3
  <2>. QED
    BY <2>2, <2>3 DEF AreBits
<1>8. ASSUME NEW j \in 0 .. (n - 1) PROVE va[j] - vb[j] - vc[j] = vs[j] - 2 * vc[j + 1]
  <2>1. j \in Nat /\ j + 1 \in Nat
    OBVIOUS
  <2>2. /\ va[j] = c[Bit(k.a, j)].val /\ vb[j] = c[Bit(k.b, j)].val /\ vs[j] = c[Bit(k.out, j)].val
        /\ vc[j] = c[BorrowIn(k, j)].val /\ vc[j + 1] = c[wire("_Bo", j)].val
    BY <1>6, <2>1 DEF Word
  <2>. QED
    BY <1>5, <2>2
<1>9. vc[0] = 0 /\ vc[n] \in {0, 1}
  <2>1. n \in 0 .. ((n + 1) - 1)
    BY <1>1
  <2>. QED
    BY <1>4, <1>6, <1>7, <2>1 DEF AreBits
<1>. HIDE DEF va, vb, vs, vc
<1>10. NumberOf(va, n) - NumberOf(vb, n) = NumberOf(vs, n) - 2 ^ n * vc[n]
  <2>1. PICK ua, ub, us, uc : ua = va /\ ub = vb /\ us = vs /\ uc = vc
    OBVIOUS
  <2>2. /\ n \in Nat /\ AreBits(ua, n) /\ AreBits(ub, n) /\ AreBits(us, n) /\ AreBits(uc, n + 1) /\ uc[0] = 0
        /\ \A j \in 0 .. (n - 1) : ua[j] - ub[j] - uc[j] = us[j] - 2 * uc[j + 1]
    BY <1>1, <1>7, <1>8, <1>9, <2>1
  <2>3. NumberOf(ua, n) - NumberOf(ub, n) = NumberOf(us, n) - 2 ^ n * uc[n]
    BY <2>2, RippleDifference
  <2>. QED
    BY <2>1, <2>3
<1>. QED
  BY <1>1, <1>7, <1>9, <1>10 DEF va, vb, vs

(* Numbers of n bits are below 2^n. *)
LEMMA NumberBelow ==
  ASSUME NEW n \in Nat, NEW v, AreBits(v, n)
  PROVE  NumberOf(v, n) \in Nat /\ NumberOf(v, n) < 2 ^ n
<1>. DEFINE S == {m \in Nat : m <= n => NumberOf(v, m) \in Nat /\ NumberOf(v, m) < 2 ^ m}
<1>1. 0 \in S
  <2>1. NumberOf(v, 0) = 0 /\ 2 ^ 0 = 1
    BY NumberOfNothing
  <2>. QED
    BY <2>1
<1>2. ASSUME NEW m \in Nat, m \in S PROVE m + 1 \in S
  <2>. SUFFICES ASSUME m + 1 <= n PROVE NumberOf(v, m + 1) \in Nat /\ NumberOf(v, m + 1) < 2 ^ (m + 1)
    OBVIOUS
  <2>1. NumberOf(v, m) \in Nat /\ NumberOf(v, m) < 2 ^ m /\ m \in 0 .. (n - 1)
    BY <1>2
  <2>2. AreBits(v, m + 1)
    BY DEF AreBits
  <2>3. PICK w \in Nat : w = 2 ^ m
    BY PowerStep
  <2>4. 2 ^ (m + 1) = 2 * w
    BY <2>3, PowerStep
  <2>5. v[m] = 0 \/ v[m] = 1
    BY <2>1 DEF AreBits
  <2>6. NumberOf(v, m + 1) = NumberOf(v, m) + w * v[m] /\ NumberOf(v, m + 1) \in Nat
    BY <2>2, <2>3, NumberStep
  <2>7. w * 0 = 0 /\ w * 1 = w
    BY <2>3
  <2>. QED
    BY <2>1, <2>3, <2>4, <2>5, <2>6, <2>7
<1>3. n \in S
  <2>. HIDE DEF S
  <2>. QED
    BY <1>1, <1>2, AllNumbers
<1>. QED
  BY <1>3

(* Zeros make up nothing. *)
LEMMA NumberOfZeros ==
  ASSUME NEW n \in Nat, NEW v, \A i \in 0 .. (n - 1) : v[i] = 0
  PROVE  NumberOf(v, n) = 0
<1>. DEFINE S == {m \in Nat : m <= n => NumberOf(v, m) = 0}
<1>1. 0 \in S
  BY NumberOfNothing
<1>2. ASSUME NEW m \in Nat, m \in S PROVE m + 1 \in S
  <2>. SUFFICES ASSUME m + 1 <= n PROVE NumberOf(v, m + 1) = 0
    OBVIOUS
  <2>1. NumberOf(v, m) = 0 /\ m \in 0 .. (n - 1) /\ v[m] = 0
    BY <1>2
  <2>2. AreBits(v, m + 1)
    BY DEF AreBits
  <2>3. PICK w \in Nat : w = 2 ^ m
    BY PowerStep
  <2>4. NumberOf(v, m + 1) = 0 + w * 0
    BY <2>1, <2>2, <2>3, NumberStep
  <2>. QED
    BY <2>4
<1>3. n \in S
  <2>. HIDE DEF S
  <2>. QED
    BY <1>1, <1>2, AllNumbers
<1>. QED
  BY <1>3

(* Equal bits make up equal numbers. *)
LEMMA NumberSame ==
  ASSUME NEW n \in Nat, NEW u, NEW v, AreBits(v, n), \A i \in 0 .. (n - 1) : u[i] = v[i]
  PROVE  NumberOf(u, n) = NumberOf(v, n)
<1>. DEFINE S == {m \in Nat : m <= n => NumberOf(u, m) = NumberOf(v, m)}
<1>1. 0 \in S
  BY NumberOfNothing
<1>2. ASSUME NEW m \in Nat, m \in S PROVE m + 1 \in S
  <2>. SUFFICES ASSUME m + 1 <= n PROVE NumberOf(u, m + 1) = NumberOf(v, m + 1)
    OBVIOUS
  <2>1. NumberOf(u, m) = NumberOf(v, m) /\ m \in 0 .. (n - 1) /\ u[m] = v[m]
    BY <1>2
  <2>2. AreBits(v, m + 1) /\ AreBits(u, m + 1)
    BY DEF AreBits
  <2>3. NumberOf(v, m + 1) = NumberOf(v, m) + 2 ^ m * v[m]
    BY <2>2, NumberStep
  <2>4. NumberOf(u, m + 1) = NumberOf(u, m) + 2 ^ m * u[m]
    BY <2>2, NumberStep
  <2>. QED
    BY <2>1, <2>3, <2>4
<1>3. n \in S
  <2>. HIDE DEF S
  <2>. QED
    BY <1>1, <1>2, AllNumbers
<1>. QED
  BY <1>3

LEMMA PowerSum ==
  ASSUME NEW s \in Nat, NEW n \in Nat
  PROVE  2 ^ (n + s) = 2 ^ s * 2 ^ n
<1>. DEFINE S == {m \in Nat : 2 ^ (m + s) = 2 ^ s * 2 ^ m}
<1>1. PICK p \in Nat : p = 2 ^ s
  BY PowerStep
<1>2. 0 \in S
  <2>1. 0 + s = s /\ 2 ^ 0 = 1 /\ p * 1 = p
    BY <1>1
  <2>. QED
    BY <1>1, <2>1
<1>3. ASSUME NEW m \in Nat, m \in S PROVE m + 1 \in S
  <2>1. PICK w \in Nat : w = 2 ^ m
    BY PowerStep
  <2>2. 2 ^ (m + 1) = 2 * w
    BY <2>1, PowerStep
  <2>3. 2 ^ (m + s) = p * w
    BY <1>1, <1>3, <2>1
  <2>4. PICK t \in Nat : t = m + s
    OBVIOUS
  <2>5. 2 ^ (t + 1) = 2 * 2 ^ t
    BY PowerStep
  <2>6. (m + 1) + s = t + 1
    BY <2>4
  <2>7. 2 * (p * w) = p * (2 * w)
    OBVIOUS
  <2>8. 2 ^ ((m + 1) + s) = p * (2 * w)
    BY <2>3, <2>4, <2>5, <2>6, <2>7
  <2>. QED
    BY <1>1, <2>2, <2>8
<1>. HIDE DEF S
<1>4. n \in S
  BY <1>2, <1>3, AllNumbers
<1>. QED
  BY <1>4 DEF S

(* Bits moved up by s with zeros below: the number times 2^s. *)
LEMMA NumberMoved ==
  ASSUME NEW s \in Nat, NEW n \in Nat, NEW u, NEW v, AreBits(v, n),
         \A i \in 0 .. (s - 1) : u[i] = 0, \A i \in 0 .. (n - 1) : u[i + s] = v[i]
  PROVE  NumberOf(u, n + s) = 2 ^ s * NumberOf(v, n)
<1>. DEFINE S == {m \in Nat : m <= n => NumberOf(u, m + s) = 2 ^ s * NumberOf(v, m)}
<1>1. PICK p \in Nat : p = 2 ^ s
  BY PowerStep
<1>2. 0 \in S
  <2>1. NumberOf(u, s) = 0
    BY NumberOfZeros
  <2>2. NumberOf(v, 0) = 0 /\ 0 + s = s /\ p * 0 = 0
    BY NumberOfNothing
  <2>. QED
    BY <1>1, <2>1, <2>2
<1>3. ASSUME NEW m \in Nat, m \in S PROVE m + 1 \in S
  <2>. SUFFICES ASSUME m + 1 <= n PROVE NumberOf(u, (m + 1) + s) = 2 ^ s * NumberOf(v, m + 1)
    OBVIOUS
  <2>1. PICK t \in Nat : t = m + s
    OBVIOUS
  <2>2. NumberOf(u, t) = p * NumberOf(v, m) /\ m \in 0 .. (n - 1) /\ u[t] = v[m]
    BY <1>1, <1>3, <2>1
  <2>3. AreBits(v, m + 1)
    BY DEF AreBits
  <2>4. AreBits(u, t + 1)
    <3>1. ASSUME NEW i \in 0 .. ((t + 1) - 1) PROVE u[i] \in {0, 1}
      <4>1. CASE i < s
        BY <4>1
      <4>2. CASE i >= s
        <5>1. PICK j \in 0 .. (n - 1) : i = j + s
          <6>1. i - s \in 0 .. (n - 1) /\ i = (i - s) + s
            BY <2>1, <4>2
          <6>. QED
            BY <6>1
        <5>. QED
          BY <5>1 DEF AreBits
      <4>. QED
        BY <4>1, <4>2
    <3>. QED
      BY <3>1 DEF AreBits
  <2>5. PICK w \in Nat : w = 2 ^ m
    BY PowerStep
  <2>6. 2 ^ t = p * w
    BY <1>1, <2>1, <2>5, PowerSum
  <2>7. NumberOf(v, m + 1) = NumberOf(v, m) + w * v[m] /\ NumberOf(v, m) \in Nat
    BY <2>3, <2>5, NumberStep
  <2>8. NumberOf(u, t + 1) = NumberOf(u, t) + (p * w) * u[t]
    BY <2>4, <2>6, NumberStep
  <2>9. v[m] = 0 \/ v[m] = 1
    BY <2>2 DEF AreBits
  <2>10. PICK a \in Nat, b \in {0, 1} : a = NumberOf(v, m) /\ b = v[m]
    BY <2>7, <2>9
  <2>11. p * a + (p * w) * b = p * (a + w * b)
    <3>1. CASE b = 0
      BY <3>1
    <3>2. CASE b = 1
      BY <3>2
    <3>. QED
      BY <3>1, <3>2
  <2>12. (m + 1) + s = t + 1
    BY <2>1
  <2>13. NumberOf(u, t + 1) = p * a + (p * w) * b
    BY <2>2, <2>8, <2>10
  <2>14. NumberOf(v, m + 1) = a + w * b
    BY <2>7, <2>10
  <2>. QED
    BY <1>1, <2>11, <2>12, <2>13, <2>14
<1>. HIDE DEF S
<1>4. n \in S
  BY <1>2, <1>3, AllNumbers
<1>. QED
  BY <1>4 DEF S

----------------------------------------------------------------------------
(* The modules of one call *)

LEMMA NumberIs ==
  ASSUME NEW p, NEW n \in Nat
  PROVE  Number(p, n) = NumberOf(Word(circuit, p), n)
<1>1. \A i \in 0 .. (n - 1) : Word(circuit, p)[i] = val(Bit(p, i))
  <2>1. \A i \in 0 .. (n - 1) : i \in Nat
    OBVIOUS
  <2>. QED
    BY <2>1 DEF Word, val
<1>2. [i \in 0 .. (n - 1) |-> 2 ^ i * val(Bit(p, i))] = [i \in 0 .. (n - 1) |-> 2 ^ i * Word(circuit, p)[i]]
  BY <1>1
<1>. QED
  BY <1>2 DEF Number, NumberOf

LEMMA Remainder ==
  ASSUME NEW m \in Nat, NEW s \in Nat, s < m, NEW b \in {0, 1}, NEW d \in Int, d = s - m * b
  PROVE  d % m = s
<1>1. CASE b = 0
  BY <1>1
<1>2. CASE b = 1
  <2>1. d = s - m
    BY <1>2
  <2>2. (s - m) % m = s
    OBVIOUS
  <2>. QED
    BY <2>1, <2>2
<1>. QED
  BY <1>1, <1>2

(* The module of a saved file. *)
LEMMA SavedModule ==
  ASSUME MInv, saved
  PROVE  /\ option \in Options /\ option \in Option /\ Settled(circuit, given) /\ Complete(circuit, option)
         /\ \A i \in 1 .. Len(Calls(option)) : Calls(option)[i] \in ProperCalls
<1>1. option \in Option /\ option \in Options /\ Complete(circuit, option)
  BY OptionsAssumption DEF MInv, Complete
<1>2. Calls(option) \in Seq(ProperCalls)
  BY <1>1, CallsProper
<1>3. \A i \in 1 .. Len(Calls(option)) : Calls(option)[i] \in ProperCalls
  BY <1>2
<1>4. Settled(circuit, given)
  BY DEF MInv, FInv, TInv, GInv, Settled
<1>. QED
  BY <1>1, <1>3, <1>4

LEMMA AdderComputes ==
  ASSUME MInv, saved, option.op = "add"
  PROVE  LET n == option.bits
         IN Number(<<"s">>, n) + 2 ^ n * val(Wire("cout")) = Number(<<"a">>, n) + Number(<<"b">>, n) + val(Wire("cin"))
<1>1. PICK c, v : c = circuit /\ v = given
  OBVIOUS
<1>2. /\ option \in Option /\ Settled(c, v) /\ Complete(c, option)
      /\ \A i \in 1 .. Len(Calls(option)) : Calls(option)[i] \in ProperCalls
  BY <1>1, SavedModule
<1>3. PICK k : k = Calls(option)[1]
  OBVIOUS
<1>4. Len(Calls(option)) = 1 /\ k = CallOf("add", <<"a">>, <<"b">>, <<"s">>, Wire("cin"), Wire("cout"), option.bits, 0)
  BY <1>2, <1>3, OneCall
<1>5. /\ k.op = "add" /\ k.a = <<"a">> /\ k.b = <<"b">> /\ k.out = <<"s">> /\ k.cin = Wire("cin") /\ k.cout = Wire("cout")
      /\ k.bits = option.bits
  BY <1>4, FieldsOf
<1>6. 1 \in 1 .. 1
  OBVIOUS
<1>7. /\ k \in ProperCalls /\ Sized(k) /\ MadeTo(c, k, End(k)) /\ Created(k) \subseteq DOMAIN c /\ OwnTo(c, k, End(k))
  BY <1>2, <1>3, <1>4, <1>6 DEF Complete, LastCall
<1>8. ChainCall(k)
  BY <1>2, <1>3, <1>4, <1>5, <1>6, ChainCalls
<1>9. PICK n \in Nat : n = k.bits /\ n \in 1 .. (UintMod - 1) /\ n - 1 \in 0 .. (n - 1) /\ n # 0 /\ Less(k.bits) = n - 1
  <2>1. k.bits \in 1 .. (UintMod - 1)
    BY <1>5, <1>7, SizesAssumption DEF Sized, ProperCalls, Call
  <2>2. Less(k.bits) = k.bits - 1
    BY <2>1, LessIsOneLess
  <2>. QED
    BY <2>1, <2>2, SizesAssumption
<1>10. First(k) = 0 /\ End(k) = n
  BY <1>5, <1>9 DEF First, End
<1>11. \A j \in 0 .. (n - 1) : OwnAt(c, k, j)
  BY <1>7, <1>10 DEF OwnTo
<1>12. AddsTo(c, k)
  <2>1. \A j \in 0 .. (n - 1) : HasGate(c, Bit(k.out, j), Gate("xor3", <<Bit(k.a, j), Bit(k.b, j), CarryIn(k, j)>>))
    BY <1>5, <1>11 DEF OwnAt
  <2>. QED
    BY <1>9, <2>1 DEF AddsTo
<1>13. HasGate(c, k.cout, Gate("or2", <<Bit(Suffixed(k.out, "_AB"), n - 1), Bit(Suffixed(k.out, "_ciAxorB"), n - 1)>>))
  <2>1. HasGate(c, CarryOut(k, n - 1), Gate("or2", <<Bit(Suffixed(k.out, "_AB"), n - 1), Bit(Suffixed(k.out, "_ciAxorB"), n - 1)>>))
    BY <1>5, <1>9, <1>11 DEF OwnAt
  <2>2. CarryOut(k, n - 1) = k.cout
    BY <1>9 DEF CarryOut
  <2>. QED
    BY <2>1, <2>2
<1>14. k.bits # 0
  BY <1>9
<1>15. \E co \in {0, 1} :
         /\ NumberOf(Word(c, k.a), k.bits) + NumberOf(Word(c, k.b), k.bits) + c[k.cin].val
              = NumberOf(Word(c, k.out), k.bits) + 2 ^ k.bits * co
         /\ HasGate(c, k.cout, Gate("or2", <<Bit(Suffixed(k.out, "_AB"), k.bits - 1), Bit(Suffixed(k.out, "_ciAxorB"), k.bits - 1)>>))
              => c[k.cout].val = co
  BY <1>2, <1>5, <1>7, <1>8, <1>12, <1>14, AdderAdds
<1>16. NumberOf(Word(c, k.a), n) + NumberOf(Word(c, k.b), n) + c[k.cin].val
         = NumberOf(Word(c, k.out), n) + 2 ^ n * c[k.cout].val
  BY <1>9, <1>13, <1>15
<1>17. \A p : Number(p, n) = NumberOf(Word(c, p), n)
  BY <1>1, NumberIs
<1>. QED
  BY <1>1, <1>5, <1>9, <1>16, <1>17 DEF val

LEMMA SubtractorComputes ==
  ASSUME MInv, saved, option.op = "sub"
  PROVE  LET n == option.bits
         IN Number(<<"s">>, n) = (Number(<<"a">>, n) - Number(<<"b">>, n)) % 2 ^ n
<1>1. PICK c, v : c = circuit /\ v = given
  OBVIOUS
<1>2. /\ option \in Option /\ Settled(c, v) /\ Complete(c, option)
      /\ \A i \in 1 .. Len(Calls(option)) : Calls(option)[i] \in ProperCalls
  BY <1>1, SavedModule
<1>3. PICK k : k = Calls(option)[1]
  OBVIOUS
<1>4. Len(Calls(option)) = 1 /\ k = CallOf("sub", <<"a">>, <<"b">>, <<"s">>, Wire("cin"), Wire("cout"), option.bits, 0)
  BY <1>2, <1>3, OneCall
<1>5. k.op = "sub" /\ k.a = <<"a">> /\ k.b = <<"b">> /\ k.out = <<"s">> /\ k.bits = option.bits
  BY <1>4, FieldsOf
<1>6. 1 \in 1 .. 1
  OBVIOUS
<1>7. /\ k \in ProperCalls /\ MadeTo(c, k, End(k)) /\ Created(k) \subseteq DOMAIN c /\ OwnTo(c, k, End(k))
  BY <1>2, <1>3, <1>4, <1>6 DEF Complete, LastCall
<1>8. ChainCall(k)
  BY <1>2, <1>3, <1>4, <1>5, <1>6, ChainCalls
<1>9. PICK n \in Nat : n = k.bits
  BY <1>7, SizesAssumption DEF ProperCalls, Call
<1>10. First(k) = 0 /\ End(k) = n
  BY <1>5, <1>9 DEF First, End
<1>11. SubsTo(c, k)
  <2>1. \A j \in 0 .. (n - 1) : OwnAt(c, k, j)
    BY <1>7, <1>10 DEF OwnTo
  <2>2. \A j \in 0 .. (n - 1) : HasGate(c, Bit(k.out, j), Gate("xor3", <<Bit(k.a, j), Bit(k.b, j), BorrowIn(k, j)>>))
    BY <1>5, <2>1 DEF OwnAt
  <2>. QED
    BY <1>9, <2>2 DEF SubsTo
<1>12. /\ \E bo \in {0, 1} :
            NumberOf(Word(c, k.a), k.bits) - NumberOf(Word(c, k.b), k.bits) = NumberOf(Word(c, k.out), k.bits) - 2 ^ k.bits * bo
       /\ AreBits(Word(c, k.a), k.bits) /\ AreBits(Word(c, k.b), k.bits) /\ AreBits(Word(c, k.out), k.bits)
  BY <1>2, <1>5, <1>7, <1>8, <1>11, SubtractorSubtracts
<1>13. PICK m \in Nat : m = 2 ^ n
  BY PowerStep
<1>14. AreBits(Word(c, k.a), n) /\ AreBits(Word(c, k.b), n) /\ AreBits(Word(c, k.out), n)
  BY <1>9, <1>12
<1>15. PICK A \in Nat, B \in Nat, S \in Nat :
         /\ A = NumberOf(Word(c, k.a), n) /\ B = NumberOf(Word(c, k.b), n)
         /\ S = NumberOf(Word(c, k.out), n) /\ S < m
  BY <1>13, <1>14, NumberBelow
<1>16. PICK bo \in {0, 1} : A - B = S - m * bo
  BY <1>9, <1>12, <1>13, <1>15
<1>17. (A - B) % m = S
  BY <1>15, <1>16, Remainder
<1>18. \A p : Number(p, n) = NumberOf(Word(c, p), n)
  BY <1>1, NumberIs
<1>. QED
  BY <1>5, <1>9, <1>13, <1>15, <1>17, <1>18

(* A word whose bits are those of another, moved up. *)
LEMMA WordMoved ==
  ASSUME NEW c, NEW v, Settled(c, v), Wire("ZERO") \in DOMAIN c, NEW p, NEW q, NEW n \in Nat, NEW s \in Nat,
         \A i \in 0 .. (n - 1) : Bit(q, i) \in DOMAIN c,
         \A j \in 0 .. (n + s - 1) : HasGate(c, Bit(p, j), Gate("buf1", <<IF j < s THEN Wire("ZERO") ELSE Bit(q, j - s)>>))
  PROVE  NumberOf(Word(c, p), n + s) = 2 ^ s * NumberOf(Word(c, q), n)
<1>1. c[Wire("ZERO")].val = 0
  <2>1. IsZero(Wire("ZERO"))
    BY WireIs, BitIs DEF IsZero, ZeroPrefixes
  <2>. QED
    BY <2>1, ConstantReads
<1>2. ASSUME NEW j \in 0 .. (n + s - 1)
      PROVE  c[Bit(p, j)].val = c[IF j < s THEN Wire("ZERO") ELSE Bit(q, j - s)].val
  <2>1. PICK m, r : m = Bit(p, j) /\ r = IF j < s THEN Wire("ZERO") ELSE Bit(q, j - s)
    OBVIOUS
  <2>2. HasGate(c, m, Gate("buf1", <<r>>))
    BY <2>1
  <2>3. c[m].val = c[r].val
    BY <2>2, BufReads
  <2>. QED
    BY <2>1, <2>3
<1>3. \A i \in 0 .. (s - 1) : Word(c, p)[i] = 0
  <2>. TAKE i \in 0 .. (s - 1)
  <2>1. i \in Nat /\ i < s /\ i \in 0 .. (n + s - 1)
    OBVIOUS
  <2>2. c[Bit(p, i)].val = 0
    BY <1>1, <1>2, <2>1
  <2>. QED
    BY <2>1, <2>2 DEF Word
<1>4. \A i \in 0 .. (n - 1) : Word(c, p)[i + s] = Word(c, q)[i]
  <2>. TAKE i \in 0 .. (n - 1)
  <2>1. PICK j : j = i + s
    OBVIOUS
  <2>2. i \in Nat /\ j \in Nat /\ ~ (j < s) /\ j \in 0 .. (n + s - 1) /\ j - s = i
    BY <2>1
  <2>3. c[Bit(p, j)].val = c[Bit(q, i)].val
    BY <1>2, <2>2
  <2>. QED
    BY <2>1, <2>2, <2>3 DEF Word
<1>5. AreBits(Word(c, q), n)
  <2>1. \A i \in 0 .. (n - 1) : i \in Nat /\ c[Bit(q, i)].val \in {0, 1}
    BY DEF Settled, IsCircuit, IsNode
  <2>. QED
    BY <2>1 DEF AreBits, Word
<1>6. PICK u, w : u = Word(c, p) /\ w = Word(c, q)
  OBVIOUS
<1>7. AreBits(w, n) /\ (\A i \in 0 .. (s - 1) : u[i] = 0) /\ (\A i \in 0 .. (n - 1) : u[i + s] = w[i])
  BY <1>3, <1>4, <1>5, <1>6
<1>8. NumberOf(u, n + s) = 2 ^ s * NumberOf(w, n)
  BY <1>7, NumberMoved
<1>. QED
  BY <1>6, <1>8

(* Two words of one circuit that have no name in common. *)
LEMMA TwoWords ==
  ASSUME NEW p, NEW q, p # q, NEW n \in Nat, NEW s \in Nat, NEW D, IsFiniteSet(D),
         \A i \in 0 .. (n - 1) : Bit(p, i) \in D, \A i \in 0 .. (s - 1) : Bit(q, i) \in D
  PROVE  n + s <= Cardinality(D)
<1>. DEFINE T == 0 .. (n + s - 1)
            f == [i \in T |-> IF i < n THEN Bit(p, i) ELSE Bit(q, i - n)]
<1>1. Cardinality(T) = n + s
  BY FS_Interval
<1>2. f \in Injection(T, D)
  <2>1. \A i \in T : IF i < n THEN i \in 0 .. (n - 1) ELSE i - n \in 0 .. (s - 1)
    OBVIOUS
  <2>2. \A i \in T : f[i] \in D
    BY <2>1
  <2>3. \A i, j \in T : f[i] = f[j] => i = j
    <3>. TAKE i, j \in T
    <3>1. CASE i < n /\ j < n
      BY <3>1, BitsApart
    <3>2. CASE i < n /\ ~(j < n)
      BY <3>2, BitsApart
    <3>3. CASE ~(i < n) /\ j < n
      BY <3>3, BitsApart
    <3>4. CASE ~(i < n) /\ ~(j < n)
      <4>1. f[i] = f[j] => i - n = j - n
        BY <3>4, BitsApart
      <4>. QED
        BY <4>1
    <3>. QED
      BY <3>1, <3>2, <3>3, <3>4
  <2>. QED
    BY <2>2, <2>3 DEF Injection, IsInjective
<1>3. Cardinality(T) <= Cardinality(D)
  BY <1>2, FS_Injection
<1>. QED
  BY <1>1, <1>3

(* A shifter that has come to its end has not wrapped: more nodes than an        *)
(* unsigned int can count would have to be there.                            *)
LEMMA WrapNeverSaved ==
  ASSUME NEW c, IsFiniteSet(DOMAIN c), Cardinality(DOMAIN c) <= Memory, NEW k, k.op = "shift", k.a # k.out,
         k.bits \in 0 .. (UintMod - 1), k.shift \in 0 .. (UintMod - 1),
         Created(k) \subseteq DOMAIN c, OwnTo(c, k, End(k))
  PROVE  k.bits + k.shift < UintMod
<1>. SUFFICES ASSUME k.bits + k.shift >= UintMod PROVE FALSE
  BY SizesAssumption
<1>1. PICK n \in Nat, s \in Nat : n = k.bits /\ s = k.shift
  BY SizesAssumption
<1>2. First(k) = 0 /\ End(k) = s
  BY <1>1, ShiftLoop
<1>3. \A i \in 0 .. (s - 1) : Bit(k.out, i) \in DOMAIN c
  BY <1>2 DEF OwnTo, OwnAt, HasGate
<1>4. \A i \in 0 .. (n - 1) : Bit(k.a, i) \in DOMAIN c
  <2>1. Bits(k.a, n) \subseteq DOMAIN c
    BY <1>1 DEF Created
  <2>. QED
    BY <2>1, BitsHave
<1>5. n + s <= Cardinality(DOMAIN c)
  BY <1>3, <1>4, TwoWords
<1>6. Cardinality(DOMAIN c) \in Nat
  BY FS_CardinalityType
<1>. QED
  BY <1>1, <1>5, <1>6, SizesAssumption, MemoryAssumption

LEMMA ShifterComputes ==
  ASSUME MInv, saved, option.op = "shift"
  PROVE  Number(<<"out">>, option.bits + option.shift) = 2 ^ option.shift * Number(<<"orig">>, option.bits)
<1>1. PICK c, v : c = circuit /\ v = given
  OBVIOUS
<1>2. option \in Option /\ Settled(c, v) /\ Complete(c, option)
  BY <1>1, SavedModule
<1>3. PICK k : k = Calls(option)[1]
  OBVIOUS
<1>4. /\ Len(Calls(option)) = 1
      /\ k = CallOf("shift", <<"orig">>, <<>>, <<"out">>, Wire("cin"), Wire("cout"), option.bits, option.shift)
  BY <1>2, <1>3, OneCall
<1>5. k.op = "shift" /\ k.a = <<"orig">> /\ k.out = <<"out">> /\ k.bits = option.bits /\ k.shift = option.shift
  BY <1>4, FieldsOf
<1>6. 1 \in 1 .. 1
  OBVIOUS
<1>7. Created(k) \subseteq DOMAIN c /\ OwnTo(c, k, End(k))
  BY <1>2, <1>3, <1>4, <1>6 DEF Complete, LastCall
<1>8. PICK n \in Nat, s \in Nat : n = k.bits /\ s = k.shift
  BY <1>2, <1>5, SizesAssumption DEF Option
<1>14. k.bits \in 0 .. (UintMod - 1) /\ k.shift \in 0 .. (UintMod - 1)
  BY <1>2, <1>5 DEF Option
<1>15. n + s < UintMod
  <2>1. IsFiniteSet(DOMAIN c) /\ Cardinality(DOMAIN c) <= Memory
    BY <1>1 DEF MInv, FInv
  <2>2. k.a # k.out
    BY <1>5
  <2>. QED
    BY <1>5, <1>7, <1>8, <1>14, <2>1, <2>2, WrapNeverSaved
<1>9. First(k) = 0 /\ End(k) = n + s
  BY <1>5, <1>8, <1>14, <1>15, ShiftLoop
<1>10. \A j \in 0 .. (n + s - 1) :
         HasGate(c, Bit(k.out, j), Gate("buf1", <<IF j < s THEN Wire("ZERO") ELSE Bit(k.a, j - s)>>))
  <2>1. \A j \in 0 .. (n + s - 1) : OwnAt(c, k, j)
    BY <1>7, <1>9 DEF OwnTo
  <2>. QED
    BY <1>5, <1>8, <2>1 DEF OwnAt
<1>11. Wire("ZERO") \in DOMAIN c /\ \A i \in 0 .. (n - 1) : Bit(k.a, i) \in DOMAIN c
  <2>1. Bits(k.a, n) \subseteq DOMAIN c /\ Wire("ZERO") \in DOMAIN c
    BY <1>5, <1>7, <1>8 DEF Created
  <2>. QED
    BY <2>1, BitsHave
<1>12. NumberOf(Word(c, k.out), n + s) = 2 ^ s * NumberOf(Word(c, k.a), n)
  BY <1>2, <1>10, <1>11, WordMoved
<1>13. /\ Number(k.out, n + s) = NumberOf(Word(c, k.out), n + s)
       /\ Number(k.a, n) = NumberOf(Word(c, k.a), n)
  <2>1. n + s \in Nat
    OBVIOUS
  <2>. QED
    BY <1>1, <2>1, NumberIs
<1>. QED
  BY <1>5, <1>8, <1>12, <1>13

----------------------------------------------------------------------------
(* The datapath of abs(min(5x,3y)) *)

(* All calls of abs(min(5x,3y)) have been made. *)
Datapath(c, v) ==
  /\ Settled(c, v)
  /\ \A i \in 1 .. 12 :
       LET k == AbsMinCalls[i]
       IN /\ k \in ProperCalls /\ Created(k) \subseteq DOMAIN c /\ MadeTo(c, k, End(k))
          /\ k.op \in {"add", "sub"} => ChainCall(k)

LEMMA DatapathReady ==
  ASSUME MInv, saved, option.op = "absmin"
  PROVE  Datapath(circuit, given) /\ OwnTo(circuit, AbsMinCalls[12], End(AbsMinCalls[12]))
<1>1. PICK c, v : c = circuit /\ v = given
  OBVIOUS
<1>2. /\ option \in Option /\ Settled(c, v) /\ Complete(c, option)
      /\ \A i \in 1 .. Len(Calls(option)) : Calls(option)[i] \in ProperCalls
  BY <1>1, SavedModule
<1>3. Calls(option) = AbsMinCalls
  BY DEF Calls
<1>4. Len(AbsMinCalls) = 12
  BY AbsMinAt
<1>5. \A i \in 1 .. 12 : Calls(option)[i].op \in {"add", "sub"} => ChainCall(Calls(option)[i])
  BY <1>2, <1>3, <1>4, ChainCalls
<1>6. \A i \in 1 .. 12 : Created(AbsMinCalls[i]) \subseteq DOMAIN c /\ MadeTo(c, AbsMinCalls[i], End(AbsMinCalls[i]))
  BY <1>2, <1>3, <1>4 DEF Complete
<1>7. OwnTo(c, AbsMinCalls[12], End(AbsMinCalls[12]))
  BY <1>2, <1>3, <1>4 DEF Complete, LastCall
<1>8. Datapath(c, v)
  BY <1>2, <1>3, <1>4, <1>5, <1>6 DEF Datapath
<1>. QED
  BY <1>1, <1>7, <1>8

(* Its shifters, adders and subtractors have the gates of their names. *)
LEMMA DatapathBits ==
  ASSUME NEW c, NEW v, Datapath(c, v), NEW i \in 1 .. 12, NEW k, k = AbsMinCalls[i],
         k.op \in {"add", "sub", "shift"}, k.out \in BasePrefixes, NEW j \in 0 .. (k.bits - 1)
  PROVE  Gated(c, Bit(k.out, j)) /\ ~IsSink(Bit(k.out, j))
<1>1. k \in ProperCalls /\ MadeTo(c, k, End(k))
  BY DEF Datapath
<1>2. k.bits = Width /\ k.shift \in 0 .. 2
  <2>1. i \in 4 .. 10
    BY AbsMinAt, FieldsOf
  <2>. QED
    BY <2>1, AbsMinAt, FieldsOf
<1>3. First(k) = 0 /\ j \in 0 .. (End(k) - 1)
  BY <1>2, WordLoop, SizesAssumption DEF Width
<1>4. Bit(k.out, j) \in OutsAt(k, j)
  BY DEF OutsAt
<1>5. Gated(c, Bit(k.out, j))
  BY <1>1, <1>3, <1>4 DEF MadeTo
<1>. QED
  BY <1>5, CanonBase

LEMMA DatapathAdds ==
  ASSUME NEW c, NEW v, Datapath(c, v), NEW i \in 1 .. 12, NEW k, k = AbsMinCalls[i], k.out \in BasePrefixes
  PROVE  /\ k.op = "add" => AddsTo(c, k)
         /\ k.op = "sub" => SubsTo(c, k)
<1>1. Settled(c, v) /\ (k.op \in {"add", "sub"} => ChainCall(k))
  BY DEF Datapath
<1>2. CASE k.op = "add"
  <2>. SUFFICES ASSUME NEW j \in 0 .. (k.bits - 1)
                PROVE  HasGate(c, Bit(k.out, j), Gate("xor3", <<Bit(k.a, j), Bit(k.b, j), CarryIn(k, j)>>))
    BY <1>2 DEF AddsTo
  <2>1. Gated(c, Bit(k.out, j)) /\ ~IsSink(Bit(k.out, j))
    BY <1>2, DatapathBits
  <2>2. Canon(Bit(k.out, j)) = Gate("xor3", <<Bit(k.a, j), Bit(k.b, j), CarryIn(k, j)>>)
    BY <1>1, <1>2, <2>1, AdderCanon
  <2>. QED
    BY <1>1, <2>1, <2>2, CanonReads
<1>3. CASE k.op = "sub"
  <2>. SUFFICES ASSUME NEW j \in 0 .. (k.bits - 1)
                PROVE  HasGate(c, Bit(k.out, j), Gate("xor3", <<Bit(k.a, j), Bit(k.b, j), BorrowIn(k, j)>>))
    BY <1>3 DEF SubsTo
  <2>1. Gated(c, Bit(k.out, j)) /\ ~IsSink(Bit(k.out, j))
    BY <1>3, DatapathBits
  <2>2. Canon(Bit(k.out, j)) = Gate("xor3", <<Bit(k.a, j), Bit(k.b, j), BorrowIn(k, j)>>)
    BY <1>1, <1>3, <2>1, SubtractorCanon
  <2>. QED
    BY <1>1, <2>1, <2>2, CanonReads
<1>. QED
  BY <1>2, <1>3

(* The inputs, extended with their sign. *)
LEMMA ExtendedBits ==
  ASSUME NEW c, NEW v, Datapath(c, v), NEW p \in {x, y}, NEW i \in 0 .. (Width - 1)
  PROVE  /\ Bit(p, i) \in DOMAIN c /\ c[Bit(p, i)].val \in {0, 1}
         /\ i >= InBits => c[Bit(p, i)].val = c[Bit(p, InBits - 1)].val
<1>1. Width \in Nat /\ InBits \in Nat /\ Width = InBits + 3 /\ i \in Nat
  BY SizesAssumption DEF Width
<1>2. Bit(p, i) \in DOMAIN c
  <2>1. 1 \in 1 .. 12
    OBVIOUS
  <2>2. Created(AbsMinCalls[1]) \subseteq DOMAIN c
    BY <2>1 DEF Datapath
  <2>. QED
    BY <2>2, AbsMinCreates
<1>3. c[Bit(p, i)].val \in {0, 1}
  BY <1>2 DEF Datapath, Settled, IsCircuit, IsNode
<1>4. ASSUME i >= InBits PROVE c[Bit(p, i)].val = c[Bit(p, InBits - 1)].val
  <2>1. AbsMinCalls[2].op = "extend"
    BY AbsMinAt, FieldsOf
  <2>2. First(AbsMinCalls[2]) = InBits /\ End(AbsMinCalls[2]) = Width /\ OutsAt(AbsMinCalls[2], i) = {Bit(x, i), Bit(y, i)}
    BY <2>1 DEF First, End, OutsAt
  <2>3. MadeTo(c, AbsMinCalls[2], End(AbsMinCalls[2]))
    <3>1. 2 \in 1 .. 12
      OBVIOUS
    <3>. QED
      BY <3>1 DEF Datapath
  <2>4. i \in InBits .. (Width - 1)
    BY <1>1, <1>4
  <2>5. Gated(c, Bit(p, i))
    BY <2>2, <2>3, <2>4 DEF MadeTo
  <2>6. ~IsSink(Bit(p, i)) /\ Canon(Bit(p, i)) = Gate("buf1", <<Bit(p, InBits - 1)>>)
    BY <1>1, <1>4, ExtensionNames
  <2>7. Settled(c, v)
    BY DEF Datapath
  <2>8. HasGate(c, Bit(p, i), Gate("buf1", <<Bit(p, InBits - 1)>>))
    BY <2>5, <2>6, <2>7, CanonReads
  <2>. QED
    BY <2>7, <2>8, BufReads
<1>. QED
  BY <1>2, <1>3, <1>4

(* Three bits more of the sign: what the number is with one, two and three of   *)
(* them, h being the weight of the sign bit.                                 *)
LEMMA SignBits ==
  ASSUME NEW n \in Nat \ {0}, NEW u, AreBits(u, n + 3), u[n] = u[n - 1], u[n + 1] = u[n - 1], u[n + 2] = u[n - 1]
  PROVE  \E h \in Nat, low \in Nat :
           /\ h >= 1 /\ low < h
           /\ 2 ^ n = 2 * h /\ 2 ^ (n + 2) = 8 * h /\ 2 ^ (n + 3) = 16 * h
           /\ NumberOf(u, n) = low + h * u[n - 1]
           /\ NumberOf(u, n + 1) = low + 3 * (h * u[n - 1])
           /\ NumberOf(u, n + 2) = low + 7 * (h * u[n - 1])
           /\ NumberOf(u, n + 3) = low + 15 * (h * u[n - 1])
<1>1. PICK m \in Nat : m = n - 1 /\ n = m + 1
  OBVIOUS
<1>2. PICK h \in Nat : h = 2 ^ m /\ h >= 1
  BY PowerStep
<1>3. 2 ^ n = 2 * h
  BY <1>1, <1>2, PowerStep
<1>4. 2 ^ (n + 1) = 4 * h
  BY <1>3, PowerStep
<1>5. 2 ^ (n + 2) = 8 * h
  <2>1. PICK t \in Nat : t = n + 1
    OBVIOUS
  <2>2. 2 ^ (t + 1) = 2 * 2 ^ t /\ t + 1 = n + 2
    BY <2>1, PowerStep
  <2>. QED
    BY <1>4, <2>1, <2>2
<1>6. 2 ^ (n + 3) = 16 * h
  <2>1. PICK t \in Nat : t = n + 2
    OBVIOUS
  <2>2. 2 ^ (t + 1) = 2 * 2 ^ t /\ t + 1 = n + 3
    BY <2>1, PowerStep
  <2>. QED
    BY <1>5, <2>1, <2>2
<1>7. \A t \in 0 .. (n + 3) : AreBits(u, t)
  BY DEF AreBits
<1>8. ASSUME NEW t \in 0 .. (n + 2)
      PROVE  NumberOf(u, t + 1) = NumberOf(u, t) + 2 ^ t * u[t]
  <2>1. t \in Nat /\ AreBits(u, t + 1)
    BY <1>7
  <2>. QED
    BY <2>1, NumberStep
<1>9. m \in 0 .. (n + 3) /\ m \in 0 .. (n + 2) /\ n \in 0 .. (n + 2) /\ n + 1 \in 0 .. (n + 2) /\ n + 2 \in 0 .. (n + 2)
  BY <1>1
<1>10. PICK low \in Nat : low = NumberOf(u, m) /\ low < h
  BY <1>2, <1>7, <1>9, NumberBelow
<1>11. PICK s \in {0, 1} : s = u[m]
  <2>1. m \in 0 .. ((n + 3) - 1)
    BY <1>1
  <2>. QED
    BY <2>1 DEF AreBits
<1>12. PICK g \in Nat : g = h * s /\ (2 * h) * s = 2 * g /\ (4 * h) * s = 4 * g /\ (8 * h) * s = 8 * g
  <2>1. CASE s = 0
    BY <2>1
  <2>2. CASE s = 1
    BY <2>2
  <2>. QED
    BY <2>1, <2>2
<1>13. NumberOf(u, n) = low + g
  BY <1>1, <1>2, <1>8, <1>9, <1>10, <1>11, <1>12
<1>14. NumberOf(u, n + 1) = (low + g) + 2 * g
  <2>1. NumberOf(u, n + 1) = NumberOf(u, n) + 2 ^ n * u[n]
    BY <1>8, <1>9
  <2>. QED
    BY <1>1, <1>3, <1>11, <1>12, <1>13, <2>1
<1>15. NumberOf(u, n + 2) = ((low + g) + 2 * g) + 4 * g
  <2>1. PICK t : t = n + 1 /\ t + 1 = n + 2
    OBVIOUS
  <2>2. NumberOf(u, t + 1) = NumberOf(u, t) + 2 ^ t * u[t]
    BY <1>8, <1>9, <2>1
  <2>. QED
    BY <1>1, <1>4, <1>11, <1>12, <1>14, <2>1, <2>2
<1>16. NumberOf(u, n + 3) = (((low + g) + 2 * g) + 4 * g) + 8 * g
  <2>1. PICK t : t = n + 2 /\ t + 1 = n + 3
    OBVIOUS
  <2>2. NumberOf(u, t + 1) = NumberOf(u, t) + 2 ^ t * u[t]
    BY <1>8, <1>9, <2>1
  <2>. QED
    BY <1>1, <1>5, <1>11, <1>12, <1>15, <2>1, <2>2
<1>17. g = h * u[n - 1]
  BY <1>1, <1>11, <1>12
<1>18. ((low + g) + 2 * g = low + 3 * g) /\ (((low + g) + 2 * g) + 4 * g = low + 7 * g)
       /\ ((((low + g) + 2 * g) + 4 * g) + 8 * g = low + 15 * g)
  OBVIOUS
<1>19. /\ NumberOf(u, n) = low + h * u[n - 1] /\ NumberOf(u, n + 1) = low + 3 * (h * u[n - 1])
       /\ NumberOf(u, n + 2) = low + 7 * (h * u[n - 1]) /\ NumberOf(u, n + 3) = low + 15 * (h * u[n - 1])
  BY <1>13, <1>14, <1>15, <1>16, <1>17, <1>18
<1>. QED
  BY <1>2, <1>3, <1>5, <1>6, <1>10, <1>19

(* Which calls these are. *)
LEMMA DatapathCalls ==
  /\ \A i \in {4, 6} : AbsMinCalls[i].op = "shift" /\ AbsMinCalls[i].bits = Width
  /\ \A i \in {5, 7} : AbsMinCalls[i].op = "add" /\ AbsMinCalls[i].bits = Width /\ AbsMinCalls[i].cin = Wire("ZERO")
  /\ \A i \in {8, 9, 10} : AbsMinCalls[i].op = "sub" /\ AbsMinCalls[i].bits = Width
  /\ AbsMinCalls[4].a = x /\ AbsMinCalls[4].out = fourX /\ AbsMinCalls[4].shift = 2
  /\ AbsMinCalls[5].a = x /\ AbsMinCalls[5].b = fourX /\ AbsMinCalls[5].out = fiveX
  /\ AbsMinCalls[6].a = y /\ AbsMinCalls[6].out = twoY /\ AbsMinCalls[6].shift = 1
  /\ AbsMinCalls[7].a = y /\ AbsMinCalls[7].b = twoY /\ AbsMinCalls[7].out = threeY
  /\ AbsMinCalls[8].a = zeros /\ AbsMinCalls[8].b = fiveX /\ AbsMinCalls[8].out = minus5X
  /\ AbsMinCalls[9].a = zeros /\ AbsMinCalls[9].b = threeY /\ AbsMinCalls[9].out = minus3Y
  /\ AbsMinCalls[10].a = fiveX /\ AbsMinCalls[10].b = threeY /\ AbsMinCalls[10].out = diff
  BY AbsMinAt, FieldsOf

LEMMA DatapathZero ==
  ASSUME NEW c, NEW v, Datapath(c, v)
  PROVE  Wire("ZERO") \in DOMAIN c /\ c[Wire("ZERO")].val = 0
<1>1. 3 \in 1 .. 12 /\ AbsMinCalls[3].op = "zero"
  BY AbsMinAt, FieldsOf
<1>2. Wire("ZERO") \in Created(AbsMinCalls[3])
  BY <1>1 DEF Created
<1>3. Wire("ZERO") \in DOMAIN c
  BY <1>1, <1>2 DEF Datapath
<1>4. IsZero(Wire("ZERO"))
  BY WireIs, BitIs DEF IsZero, ZeroPrefixes
<1>. QED
  BY <1>3, <1>4, ConstantReads DEF Datapath

(* 4x and 2y: shifters of which only the low bits are used. *)
LEMMA DatapathMoves ==
  ASSUME NEW c, NEW v, Datapath(c, v)
  PROVE  /\ NumberOf(Word(c, fourX), Width) = 4 * NumberOf(Word(c, x), InBits + 1)
         /\ NumberOf(Word(c, twoY), Width) = 2 * NumberOf(Word(c, y), InBits + 2)
<1>1. Settled(c, v)
  BY DEF Datapath
<1>2. Width \in Nat /\ InBits \in Nat /\ Width = InBits + 3
  BY SizesAssumption DEF Width
<1>3. ASSUME NEW k \in {AbsMinCalls[4], AbsMinCalls[6]}, NEW s \in Nat, NEW q \in {x, y}, NEW n \in Nat, n + s = Width,
             k.op = "shift", k.bits = Width, k.out \in {fourX, twoY},
             \A j \in Nat : Base(k.out, j) = Moved(q, j - s)
      PROVE  NumberOf(Word(c, k.out), n + s) = 2 ^ s * NumberOf(Word(c, q), n)
  <2>1. \A j \in 0 .. (n - 1) : j \in 0 .. (Width - 1)
    BY <1>3
  <2>2. \A j \in 0 .. (n - 1) : Bit(q, j) \in DOMAIN c
    BY <2>1, ExtendedBits
  <2>3. ASSUME NEW j \in 0 .. (n + s - 1)
        PROVE  HasGate(c, Bit(k.out, j), Gate("buf1", <<IF j < s THEN Wire("ZERO") ELSE Bit(q, j - s)>>))
    <3>0. PICK i \in 1 .. 12 : k = AbsMinCalls[i]
      OBVIOUS
    <3>1. j \in 0 .. (k.bits - 1) /\ k.out \in BasePrefixes
      BY <1>3 DEF BasePrefixes
    <3>2. Gated(c, Bit(k.out, j)) /\ ~IsSink(Bit(k.out, j))
      BY <1>3, <3>0, <3>1, DatapathBits
    <3>3. Canon(Bit(k.out, j)) = Base(k.out, j)
      BY <3>1, CanonBase
    <3>4. Base(k.out, j) = Gate("buf1", <<IF j < s THEN Wire("ZERO") ELSE Bit(q, j - s)>>)
      <4>1. j \in Nat /\ (j - s < 0 <=> j < s)
        OBVIOUS
      <4>2. Base(k.out, j) = Moved(q, j - s)
        BY <1>3, <4>1
      <4>. QED
        BY <4>1, <4>2 DEF Moved
    <3>. QED
      BY <1>1, <3>2, <3>3, <3>4, CanonReads
  <2>4. PICK p : p = k.out
    OBVIOUS
  <2>5. \A j \in 0 .. (n + s - 1) : HasGate(c, Bit(p, j), Gate("buf1", <<IF j < s THEN Wire("ZERO") ELSE Bit(q, j - s)>>))
    BY <2>3, <2>4
  <2>6. Wire("ZERO") \in DOMAIN c
    BY DatapathZero
  <2>7. NumberOf(Word(c, p), n + s) = 2 ^ s * NumberOf(Word(c, q), n)
    BY <1>1, <2>2, <2>5, <2>6, WordMoved
  <2>. QED
    BY <2>4, <2>7
<1>4. 2 ^ 1 = 2 /\ 2 ^ 2 = 4
  <2>1. 2 ^ (0 + 1) = 2 * 2 ^ 0 /\ 2 ^ 0 = 1 /\ 0 + 1 = 1
    BY PowerStep
  <2>2. 2 ^ (1 + 1) = 2 * 2 ^ 1 /\ 1 + 1 = 2
    BY PowerStep
  <2>. QED
    BY <2>1, <2>2
<1>5. (\A j \in Nat : Base(fourX, j) = Moved(x, j - 2)) /\ (\A j \in Nat : Base(twoY, j) = Moved(y, j - 1))
  BY BasesApart DEF Base
<1>6. NumberOf(Word(c, fourX), Width) = 4 * NumberOf(Word(c, x), InBits + 1)
  <2>1. PICK k, n : k = AbsMinCalls[4] /\ n = InBits + 1
    OBVIOUS
  <2>2. n \in Nat /\ 2 \in Nat /\ n + 2 = Width /\ k.op = "shift" /\ k.bits = Width /\ k.out = fourX
    BY <1>2, <2>1, DatapathCalls
  <2>3. PICK q \in {x, y}, s \in Nat : q = x /\ s = 2
    OBVIOUS
  <2>4. \A j \in Nat : Base(k.out, j) = Moved(q, j - s)
    BY <1>5, <2>2, <2>3
  <2>5. k \in {AbsMinCalls[4], AbsMinCalls[6]} /\ k.out \in {fourX, twoY} /\ n + s = Width
    BY <2>1, <2>2, <2>3
  <2>6. NumberOf(Word(c, k.out), n + s) = 2 ^ s * NumberOf(Word(c, q), n)
    BY <1>3, <2>2, <2>4, <2>5
  <2>. QED
    BY <1>4, <2>1, <2>2, <2>3, <2>6
<1>7. NumberOf(Word(c, twoY), Width) = 2 * NumberOf(Word(c, y), InBits + 2)
  <2>1. PICK k, n : k = AbsMinCalls[6] /\ n = InBits + 2
    OBVIOUS
  <2>2. n \in Nat /\ 1 \in Nat /\ n + 1 = Width /\ k.op = "shift" /\ k.bits = Width /\ k.out = twoY
    BY <1>2, <2>1, DatapathCalls
  <2>3. PICK q \in {x, y}, s \in Nat : q = y /\ s = 1
    OBVIOUS
  <2>4. \A j \in Nat : Base(k.out, j) = Moved(q, j - s)
    BY <1>5, <2>2, <2>3
  <2>5. k \in {AbsMinCalls[4], AbsMinCalls[6]} /\ k.out \in {fourX, twoY} /\ n + s = Width
    BY <2>1, <2>2, <2>3
  <2>6. NumberOf(Word(c, k.out), n + s) = 2 ^ s * NumberOf(Word(c, q), n)
    BY <1>3, <2>2, <2>4, <2>5
  <2>. QED
    BY <1>4, <2>1, <2>2, <2>3, <2>6
<1>. QED
  BY <1>6, <1>7

(* Modulo 16h a number from -8h to 8h - 1 has one representative. *)
Wrapped(a, h) == IF a < 0 THEN a + 16 * h ELSE a
LEMMA Wraps ==
  ASSUME NEW h \in Nat, h >= 1, NEW a \in Int, -(8 * h) <= a, a < 8 * h, NEW f \in Nat, f < 16 * h,
         NEW e \in {-1, 0, 1, 2}, f = a + (16 * h) * e
  PROVE  f = Wrapped(a, h) /\ (f >= 8 * h <=> a < 0)
<1>1. CASE e = -1
  BY <1>1 DEF Wrapped
<1>2. CASE e = 0
  BY <1>2 DEF Wrapped
<1>3. CASE e = 1
  BY <1>3 DEF Wrapped
<1>4. CASE e = 2
  BY <1>4 DEF Wrapped
<1>. QED
  BY <1>1, <1>2, <1>3, <1>4

LEMMA TopBit ==
  ASSUME NEW n \in Nat, NEW u, AreBits(u, n + 1)
  PROVE  u[n] \in {0, 1} /\ (NumberOf(u, n + 1) >= 2 ^ n <=> u[n] = 1)
<1>1. AreBits(u, n) /\ (u[n] = 0 \/ u[n] = 1)
  BY DEF AreBits
<1>2. PICK w \in Nat : w = 2 ^ n
  BY PowerStep
<1>3. PICK t \in Nat : t = NumberOf(u, n) /\ t < w
  BY <1>1, <1>2, NumberBelow
<1>4. NumberOf(u, n + 1) = t + w * u[n]
  BY <1>2, <1>3, NumberStep
<1>5. w * 0 = 0 /\ w * 1 = w
  OBVIOUS
<1>. QED
  BY <1>1, <1>2, <1>3, <1>4, <1>5

(* 5x and 3y, modulo 16h, from the extended bits of x and y. *)
LEMMA TimesFive ==
  ASSUME NEW h \in Nat, h >= 1, NEW low \in Nat, low < h, NEW s \in {0, 1}, NEW g \in Nat, g = h * s,
         NEW f \in Nat, f < 16 * h, NEW co \in {0, 1}, NEW m \in Nat, m = 16 * h,
         (low + 15 * g) + 4 * (low + 3 * g) + 0 = f + m * co
  PROVE  f = Wrapped(5 * (low - g), h) /\ (f >= 8 * h <=> 5 * (low - g) < 0)
<1>1. PICK a \in Int : a = 5 * (low - g)
  OBVIOUS
<1>2. -(8 * h) <= a /\ a < 8 * h
  <2>1. g = 0 \/ g = h
    OBVIOUS
  <2>. QED
    BY <1>1, <2>1
<1>3. PICK e \in {-1, 0, 1, 2} : e = 2 * s - co
  OBVIOUS
<1>4. f = a + (16 * h) * e
  <2>1. CASE s = 0 /\ co = 0
    BY <1>1, <1>3, <2>1
  <2>2. CASE s = 0 /\ co = 1
    BY <1>1, <1>3, <2>2
  <2>3. CASE s = 1 /\ co = 0
    BY <1>1, <1>3, <2>3
  <2>4. CASE s = 1 /\ co = 1
    BY <1>1, <1>3, <2>4
  <2>. QED
    BY <2>1, <2>2, <2>3, <2>4
<1>5. f = Wrapped(a, h) /\ (f >= 8 * h <=> a < 0)
  BY <1>2, <1>4, Wraps
<1>. QED
  BY <1>1, <1>5

LEMMA TimesThree ==
  ASSUME NEW h \in Nat, h >= 1, NEW low \in Nat, low < h, NEW s \in {0, 1}, NEW g \in Nat, g = h * s,
         NEW f \in Nat, f < 16 * h, NEW co \in {0, 1}, NEW m \in Nat, m = 16 * h,
         (low + 15 * g) + 2 * (low + 7 * g) + 0 = f + m * co
  PROVE  f = Wrapped(3 * (low - g), h) /\ (f >= 8 * h <=> 3 * (low - g) < 0)
<1>1. PICK a \in Int : a = 3 * (low - g)
  OBVIOUS
<1>2. -(8 * h) <= a /\ a < 8 * h
  <2>1. g = 0 \/ g = h
    OBVIOUS
  <2>. QED
    BY <1>1, <2>1
<1>3. PICK e \in {-1, 0, 1, 2} : e = 2 * s - co
  OBVIOUS
<1>4. f = a + (16 * h) * e
  <2>1. CASE s = 0 /\ co = 0
    BY <1>1, <1>3, <2>1
  <2>2. CASE s = 0 /\ co = 1
    BY <1>1, <1>3, <2>2
  <2>3. CASE s = 1 /\ co = 0
    BY <1>1, <1>3, <2>3
  <2>4. CASE s = 1 /\ co = 1
    BY <1>1, <1>3, <2>4
  <2>. QED
    BY <2>1, <2>2, <2>3, <2>4
<1>5. f = Wrapped(a, h) /\ (f >= 8 * h <=> a < 0)
  BY <1>2, <1>4, Wraps
<1>. QED
  BY <1>1, <1>5

(* A subtractor on such representatives, and one that negates. *)
LEMMA WrappedDifference ==
  ASSUME NEW h \in Nat, h >= 1, NEW a \in Int, NEW b \in Int, -(8 * h) <= a - b, a - b < 8 * h,
         NEW d \in Nat, d < 16 * h, NEW bo \in {0, 1}, NEW m \in Nat, m = 16 * h,
         Wrapped(a, h) - Wrapped(b, h) = d - m * bo
  PROVE  d >= 8 * h <=> a < b
<1>1. PICK r \in Int : r = a - b
  OBVIOUS
<1>2. PICK i \in {0, 1} : (i = 1 <=> a < 0) /\ Wrapped(a, h) = a + (16 * h) * i
  <2>1. CASE a < 0
    BY <2>1 DEF Wrapped
  <2>2. CASE ~(a < 0)
    BY <2>2 DEF Wrapped
  <2>. QED
    BY <2>1, <2>2
<1>3. PICK j \in {0, 1} : (j = 1 <=> b < 0) /\ Wrapped(b, h) = b + (16 * h) * j
  <2>1. CASE b < 0
    BY <2>1 DEF Wrapped
  <2>2. CASE ~(b < 0)
    BY <2>2 DEF Wrapped
  <2>. QED
    BY <2>1, <2>2
<1>4. PICK e \in {-1, 0, 1, 2} : e = i - j + bo
  OBVIOUS
<1>5. d = r + (16 * h) * e
  <2>1. (a + (16 * h) * i) - (b + (16 * h) * j) = d - (16 * h) * bo
    BY <1>2, <1>3
  <2>2. CASE i = 0 /\ j = 0
    <3>1. CASE bo = 0
      BY <1>1, <1>4, <2>1, <2>2, <3>1
    <3>2. CASE bo = 1
      BY <1>1, <1>4, <2>1, <2>2, <3>2
    <3>. QED
      BY <3>1, <3>2
  <2>3. CASE i = 0 /\ j = 1
    <3>1. CASE bo = 0
      BY <1>1, <1>4, <2>1, <2>3, <3>1
    <3>2. CASE bo = 1
      BY <1>1, <1>4, <2>1, <2>3, <3>2
    <3>. QED
      BY <3>1, <3>2
  <2>4. CASE i = 1 /\ j = 0
    <3>1. CASE bo = 0
      BY <1>1, <1>4, <2>1, <2>4, <3>1
    <3>2. CASE bo = 1
      BY <1>1, <1>4, <2>1, <2>4, <3>2
    <3>. QED
      BY <3>1, <3>2
  <2>5. CASE i = 1 /\ j = 1
    <3>1. CASE bo = 0
      BY <1>1, <1>4, <2>1, <2>5, <3>1
    <3>2. CASE bo = 1
      BY <1>1, <1>4, <2>1, <2>5, <3>2
    <3>. QED
      BY <3>1, <3>2
  <2>. QED
    BY <2>2, <2>3, <2>4, <2>5
<1>6. -(8 * h) <= r /\ r < 8 * h
  BY <1>1
<1>7. d >= 8 * h <=> r < 0
  BY <1>5, <1>6, Wraps
<1>. QED
  BY <1>1, <1>7

LEMMA WrappedNegation ==
  ASSUME NEW h \in Nat, h >= 1, NEW a \in Int, -(8 * h) <= a, a < 0,
         NEW d \in Nat, d < 16 * h, NEW bo \in {0, 1}, NEW m \in Nat, m = 16 * h,
         0 - Wrapped(a, h) = d - m * bo
  PROVE  d = -a
<1>1. Wrapped(a, h) = a + 16 * h
  BY DEF Wrapped
<1>2. CASE bo = 0
  BY <1>1, <1>2
<1>3. CASE bo = 1
  BY <1>1, <1>3
<1>. QED
  BY <1>2, <1>3

(* x or y in two's complement, and its number with one, two and three more bits. *)
LEMMA SignedInput ==
  ASSUME NEW c, NEW v, Datapath(c, v), NEW p \in {x, y}
  PROVE  \E h \in Nat, low \in Nat, s \in {0, 1}, g \in Nat :
           /\ h >= 1 /\ low < h /\ g = h * s
           /\ 2 ^ InBits = 2 * h /\ 2 ^ (InBits + 2) = 8 * h /\ 2 ^ Width = 16 * h
           /\ NumberOf(Word(c, p), InBits) - 2 ^ InBits * c[Bit(p, InBits - 1)].val = low - g
           /\ NumberOf(Word(c, p), InBits + 1) = low + 3 * g
           /\ NumberOf(Word(c, p), InBits + 2) = low + 7 * g
           /\ NumberOf(Word(c, p), Width) = low + 15 * g
<1>1. PICK n \in Nat \ {0} : n = InBits /\ Width = n + 3
  BY SizesAssumption DEF Width
<1>2. PICK u : u = Word(c, p)
  OBVIOUS
<1>3. \A i \in 0 .. (n + 2) : u[i] = c[Bit(p, i)].val /\ u[i] \in {0, 1}
  <2>1. \A i \in 0 .. (n + 2) : i \in Nat /\ i \in 0 .. (Width - 1)
    BY <1>1
  <2>. QED
    BY <1>2, <2>1, ExtendedBits DEF Word
<1>4. AreBits(u, n + 3)
  BY <1>3 DEF AreBits
<1>5. u[n] = u[n - 1] /\ u[n + 1] = u[n - 1] /\ u[n + 2] = u[n - 1] /\ u[n - 1] = c[Bit(p, n - 1)].val
  <2>1. \A i \in 0 .. (Width - 1) : i >= n => c[Bit(p, i)].val = c[Bit(p, n - 1)].val
    BY <1>1, ExtendedBits
  <2>2. /\ n - 1 \in 0 .. (n + 2) /\ n \in 0 .. (n + 2) /\ n + 1 \in 0 .. (n + 2) /\ n + 2 \in 0 .. (n + 2)
        /\ n \in 0 .. (Width - 1) /\ n + 1 \in 0 .. (Width - 1) /\ n + 2 \in 0 .. (Width - 1)
        /\ n >= n /\ n + 1 >= n /\ n + 2 >= n
    BY <1>1
  <2>. QED
    BY <1>3, <2>1, <2>2
<1>6. PICK h \in Nat, low \in Nat :
           /\ h >= 1 /\ low < h
           /\ 2 ^ n = 2 * h /\ 2 ^ (n + 2) = 8 * h /\ 2 ^ (n + 3) = 16 * h
           /\ NumberOf(u, n) = low + h * u[n - 1]
           /\ NumberOf(u, n + 1) = low + 3 * (h * u[n - 1])
           /\ NumberOf(u, n + 2) = low + 7 * (h * u[n - 1])
           /\ NumberOf(u, n + 3) = low + 15 * (h * u[n - 1])
  BY <1>4, <1>5, SignBits
<1>7. PICK s \in {0, 1} : s = u[n - 1]
  <2>1. n - 1 \in 0 .. (n + 2)
    OBVIOUS
  <2>. QED
    BY <1>3, <2>1
<1>8. PICK g \in Nat : g = h * s /\ (2 * h) * s = 2 * g
  <2>1. CASE s = 0
    BY <2>1
  <2>2. CASE s = 1
    BY <2>2
  <2>. QED
    BY <2>1, <2>2
<1>9. NumberOf(u, n) - 2 ^ n * c[Bit(p, n - 1)].val = low - g
  <2>1. NumberOf(u, n) = low + g /\ 2 ^ n * c[Bit(p, n - 1)].val = 2 * g
    BY <1>5, <1>6, <1>7, <1>8
  <2>. QED
    BY <2>1
<1>10. /\ h >= 1 /\ low < h /\ g = h * s
       /\ 2 ^ InBits = 2 * h /\ 2 ^ (InBits + 2) = 8 * h /\ 2 ^ Width = 16 * h
       /\ NumberOf(Word(c, p), InBits) - 2 ^ InBits * c[Bit(p, InBits - 1)].val = low - g
       /\ NumberOf(Word(c, p), InBits + 1) = low + 3 * g
       /\ NumberOf(Word(c, p), InBits + 2) = low + 7 * g
       /\ NumberOf(Word(c, p), Width) = low + 15 * g
  BY <1>1, <1>2, <1>6, <1>7, <1>8, <1>9
<1>. QED
  BY <1>10

(* The words between the inputs and the multiplexers; h is the weight of the     *)
(* sign bit of x and y.                                                      *)
Scaled(c, h, a, b) ==
  /\ h >= 1 /\ 2 ^ (InBits + 2) = 8 * h /\ 2 ^ Width = 16 * h
  /\ -h <= a /\ a < h /\ -h <= b /\ b < h
  /\ NumberOf(Word(c, x), InBits) - 2 ^ InBits * c[Bit(x, InBits - 1)].val = a
  /\ NumberOf(Word(c, y), InBits) - 2 ^ InBits * c[Bit(y, InBits - 1)].val = b
  /\ AreBits(Word(c, fiveX), Width) /\ NumberOf(Word(c, fiveX), Width) = Wrapped(5 * a, h)
  /\ (NumberOf(Word(c, fiveX), Width) >= 8 * h <=> 5 * a < 0)
  /\ AreBits(Word(c, threeY), Width) /\ NumberOf(Word(c, threeY), Width) = Wrapped(3 * b, h)
  /\ (NumberOf(Word(c, threeY), Width) >= 8 * h <=> 3 * b < 0)

LEMMA DatapathSums ==
  ASSUME NEW c, NEW v, Datapath(c, v), NEW i \in {5, 7}
  PROVE  LET k == AbsMinCalls[i]
         IN \E co \in {0, 1} :
              /\ NumberOf(Word(c, k.a), Width) + NumberOf(Word(c, k.b), Width) + 0 = NumberOf(Word(c, k.out), Width) + 2 ^ Width * co
              /\ AreBits(Word(c, k.out), Width)
<1>1. PICK k : k = AbsMinCalls[i]
  OBVIOUS
<1>2. i \in 1 .. 12 /\ k.op = "add" /\ k.bits = Width /\ k.cin = Wire("ZERO") /\ k.out \in BasePrefixes
  BY <1>1, DatapathCalls DEF BasePrefixes
<1>3. Settled(c, v) /\ k \in ProperCalls /\ ChainCall(k) /\ MadeTo(c, k, End(k))
  BY <1>1, <1>2 DEF Datapath
<1>4. AddsTo(c, k)
  BY <1>1, <1>2, DatapathAdds
<1>5. Width \in Nat /\ Width # 0 /\ k.bits # 0
  BY <1>2, SizesAssumption DEF Width
<1>6. c[k.cin].val = 0
  BY <1>2, DatapathZero
<1>7. \E co \in {0, 1} :
        /\ NumberOf(Word(c, k.a), k.bits) + NumberOf(Word(c, k.b), k.bits) + c[k.cin].val
             = NumberOf(Word(c, k.out), k.bits) + 2 ^ k.bits * co
        /\ AreBits(Word(c, k.out), k.bits)
  BY <1>2, <1>3, <1>4, <1>5, AdderAdds
<1>8. \E co \in {0, 1} :
        /\ NumberOf(Word(c, k.a), Width) + NumberOf(Word(c, k.b), Width) + 0
             = NumberOf(Word(c, k.out), Width) + 2 ^ Width * co
        /\ AreBits(Word(c, k.out), Width)
  BY <1>2, <1>6, <1>7
<1>. QED
  BY <1>1, <1>8

LEMMA DatapathDifferences ==
  ASSUME NEW c, NEW v, Datapath(c, v), NEW i \in {8, 9, 10}
  PROVE  LET k == AbsMinCalls[i]
         IN \E bo \in {0, 1} :
              /\ NumberOf(Word(c, k.a), Width) - NumberOf(Word(c, k.b), Width) = NumberOf(Word(c, k.out), Width) - 2 ^ Width * bo
              /\ AreBits(Word(c, k.out), Width)
<1>1. PICK k : k = AbsMinCalls[i]
  OBVIOUS
<1>2. i \in 1 .. 12 /\ k.op = "sub" /\ k.bits = Width /\ k.out \in BasePrefixes
  BY <1>1, DatapathCalls DEF BasePrefixes
<1>3. Settled(c, v) /\ k \in ProperCalls /\ ChainCall(k) /\ Created(k) \subseteq DOMAIN c /\ MadeTo(c, k, End(k))
  BY <1>1, <1>2 DEF Datapath
<1>4. SubsTo(c, k)
  BY <1>1, <1>2, DatapathAdds
<1>5. /\ \E bo \in {0, 1} :
           NumberOf(Word(c, k.a), k.bits) - NumberOf(Word(c, k.b), k.bits) = NumberOf(Word(c, k.out), k.bits) - 2 ^ k.bits * bo
      /\ AreBits(Word(c, k.out), k.bits)
  BY <1>2, <1>3, <1>4, SubtractorSubtracts
<1>6. \E bo \in {0, 1} :
        /\ NumberOf(Word(c, k.a), Width) - NumberOf(Word(c, k.b), Width) = NumberOf(Word(c, k.out), Width) - 2 ^ Width * bo
        /\ AreBits(Word(c, k.out), Width)
  BY <1>2, <1>5
<1>. QED
  BY <1>1, <1>6

LEMMA DatapathScaled ==
  ASSUME NEW c, NEW v, Datapath(c, v)
  PROVE  \E h \in Nat, a \in Int, b \in Int : Scaled(c, h, a, b)
<1>1. Width \in Nat
  BY SizesAssumption DEF Width
<1>2. PICK h \in Nat, low \in Nat, s \in {0, 1}, g \in Nat :
           /\ h >= 1 /\ low < h /\ g = h * s
           /\ 2 ^ InBits = 2 * h /\ 2 ^ (InBits + 2) = 8 * h /\ 2 ^ Width = 16 * h
           /\ NumberOf(Word(c, x), InBits) - 2 ^ InBits * c[Bit(x, InBits - 1)].val = low - g
           /\ NumberOf(Word(c, x), InBits + 1) = low + 3 * g
           /\ NumberOf(Word(c, x), Width) = low + 15 * g
  <2>1. PICK p \in {x, y} : p = x
    OBVIOUS
  <2>2. \E hh \in Nat, lo \in Nat, t \in {0, 1}, e \in Nat :
           /\ hh >= 1 /\ lo < hh /\ e = hh * t
           /\ 2 ^ InBits = 2 * hh /\ 2 ^ (InBits + 2) = 8 * hh /\ 2 ^ Width = 16 * hh
           /\ NumberOf(Word(c, p), InBits) - 2 ^ InBits * c[Bit(p, InBits - 1)].val = lo - e
           /\ NumberOf(Word(c, p), InBits + 1) = lo + 3 * e
           /\ NumberOf(Word(c, p), InBits + 2) = lo + 7 * e
           /\ NumberOf(Word(c, p), Width) = lo + 15 * e
    BY SignedInput
  <2>. QED
    BY <2>1, <2>2
<1>3. PICK h2 \in Nat, low2 \in Nat, s2 \in {0, 1}, g2 \in Nat :
           /\ h2 >= 1 /\ low2 < h2 /\ g2 = h2 * s2
           /\ 2 ^ InBits = 2 * h2
           /\ NumberOf(Word(c, y), InBits) - 2 ^ InBits * c[Bit(y, InBits - 1)].val = low2 - g2
           /\ NumberOf(Word(c, y), InBits + 2) = low2 + 7 * g2
           /\ NumberOf(Word(c, y), Width) = low2 + 15 * g2
  <2>1. PICK p \in {x, y} : p = y
    OBVIOUS
  <2>2. \E hh \in Nat, lo \in Nat, t \in {0, 1}, e \in Nat :
           /\ hh >= 1 /\ lo < hh /\ e = hh * t
           /\ 2 ^ InBits = 2 * hh /\ 2 ^ (InBits + 2) = 8 * hh /\ 2 ^ Width = 16 * hh
           /\ NumberOf(Word(c, p), InBits) - 2 ^ InBits * c[Bit(p, InBits - 1)].val = lo - e
           /\ NumberOf(Word(c, p), InBits + 1) = lo + 3 * e
           /\ NumberOf(Word(c, p), InBits + 2) = lo + 7 * e
           /\ NumberOf(Word(c, p), Width) = lo + 15 * e
    BY SignedInput
  <2>. QED
    BY <2>1, <2>2
<1>4. h2 = h
  <2>1. PICK w : w = 2 ^ InBits
    OBVIOUS
  <2>2. w = 2 * h /\ w = 2 * h2
    BY <1>2, <1>3, <2>1
  <2>. QED
    BY <2>2
<1>5. PICK m \in Nat : m = 16 * h /\ m = 2 ^ Width
  BY <1>2
<1>6. /\ AreBits(Word(c, fiveX), Width) /\ NumberOf(Word(c, fiveX), Width) = Wrapped(5 * (low - g), h)
      /\ NumberOf(Word(c, fiveX), Width) >= 8 * h <=> 5 * (low - g) < 0
  <2>1. PICK i \in {5, 7} : i = 5
    OBVIOUS
  <2>2. PICK co \in {0, 1} :
              /\ NumberOf(Word(c, x), Width) + NumberOf(Word(c, fourX), Width) + 0 = NumberOf(Word(c, fiveX), Width) + 2 ^ Width * co
              /\ AreBits(Word(c, fiveX), Width)
    BY <2>1, DatapathSums, DatapathCalls
  <2>3. PICK f \in Nat : f = NumberOf(Word(c, fiveX), Width) /\ f < m
    BY <1>1, <1>5, <2>2, NumberBelow
  <2>4. NumberOf(Word(c, fourX), Width) = 4 * (low + 3 * g)
    BY <1>2, DatapathMoves
  <2>5. (low + 15 * g) + 4 * (low + 3 * g) + 0 = f + m * co
    BY <1>2, <1>5, <2>2, <2>3, <2>4
  <2>6. f < 16 * h
    BY <1>5, <2>3
  <2>7. f = Wrapped(5 * (low - g), h) /\ (f >= 8 * h <=> 5 * (low - g) < 0)
    BY <1>2, <1>5, <2>5, <2>6, TimesFive
  <2>. QED
    BY <2>2, <2>3, <2>7
<1>7. /\ AreBits(Word(c, threeY), Width) /\ NumberOf(Word(c, threeY), Width) = Wrapped(3 * (low2 - g2), h)
      /\ NumberOf(Word(c, threeY), Width) >= 8 * h <=> 3 * (low2 - g2) < 0
  <2>1. PICK i \in {5, 7} : i = 7
    OBVIOUS
  <2>2. PICK co \in {0, 1} :
              /\ NumberOf(Word(c, y), Width) + NumberOf(Word(c, twoY), Width) + 0 = NumberOf(Word(c, threeY), Width) + 2 ^ Width * co
              /\ AreBits(Word(c, threeY), Width)
    BY <2>1, DatapathSums, DatapathCalls
  <2>3. PICK f \in Nat : f = NumberOf(Word(c, threeY), Width) /\ f < m
    BY <1>1, <1>5, <2>2, NumberBelow
  <2>4. NumberOf(Word(c, twoY), Width) = 2 * (low2 + 7 * g2)
    BY <1>3, DatapathMoves
  <2>5. (low2 + 15 * g2) + 2 * (low2 + 7 * g2) + 0 = f + m * co
    BY <1>3, <1>5, <2>2, <2>3, <2>4
  <2>6. f < 16 * h /\ low2 < h /\ g2 = h * s2
    <3>1. f < 16 * h
      BY <1>5, <2>3
    <3>2. low2 < h2 /\ g2 = h2 * s2
      BY <1>3
    <3>3. low2 < h /\ g2 = h * s2
      BY <1>4, <3>2, Zenon
    <3>. QED
      BY <3>1, <3>3
  <2>7. f = Wrapped(3 * (low2 - g2), h) /\ (f >= 8 * h <=> 3 * (low2 - g2) < 0)
    BY <1>2, <1>5, <2>5, <2>6, TimesThree
  <2>. QED
    BY <2>2, <2>3, <2>7
<1>8. PICK a \in Int, b \in Int : a = low - g /\ b = low2 - g2
  OBVIOUS
<1>9. -h <= a /\ a < h /\ -h <= b /\ b < h
  <2>1. (g = 0 \/ g = h) /\ (g2 = 0 \/ g2 = h)
    <3>1. g = 0 \/ g = h
      BY <1>2
    <3>2. g2 = 0 \/ g2 = h2
      BY <1>3
    <3>. QED
      BY <1>4, <3>1, <3>2
  <2>2. h >= 1 /\ low < h /\ low2 < h
    <3>1. h >= 1 /\ low < h
      BY <1>2
    <3>2. low2 < h2
      BY <1>3
    <3>3. low2 < h
      BY <1>4, <3>2, Zenon
    <3>. QED
      BY <3>1, <3>3
  <2>. QED
    BY <1>8, <2>1, <2>2
<1>10. Scaled(c, h, a, b)
  BY <1>2, <1>3, <1>6, <1>7, <1>8, <1>9 DEF Scaled
<1>. QED
  BY <1>10

(* The top bit of a word is its sign. *)
LEMMA WordTop ==
  ASSUME NEW c, NEW p, NEW h \in Nat, 2 ^ (InBits + 2) = 8 * h, AreBits(Word(c, p), Width)
  PROVE  /\ c[Bit(p, Width - 1)].val \in {0, 1}
         /\ NumberOf(Word(c, p), Width) >= 8 * h <=> c[Bit(p, Width - 1)].val = 1
<1>1. PICK n \in Nat : n = InBits + 2 /\ Width = n + 1 /\ Width - 1 = n
  BY SizesAssumption DEF Width
<1>2. PICK u : u = Word(c, p)
  OBVIOUS
<1>3. AreBits(u, n + 1)
  BY <1>1, <1>2
<1>4. u[n] = c[Bit(p, n)].val
  BY <1>2 DEF Word
<1>5. u[n] \in {0, 1} /\ (NumberOf(u, n + 1) >= 2 ^ n <=> u[n] = 1)
  BY <1>3, TopBit
<1>. QED
  BY <1>1, <1>2, <1>4, <1>5

(* The sign of the lesser, and which of the two it is. *)
LEMMA SelectReads ==
  ASSUME NEW c, NEW v, Datapath(c, v)
  PROVE  /\ c[Wire("sel1")].val = IF c[Bit(fiveX, Width - 1)].val = 1 \/ c[Bit(threeY, Width - 1)].val = 1 THEN 1 ELSE 0
         /\ c[Wire("sel2")].val = c[Bit(diff, Width - 1)].val
<1>1. 11 \in 1 .. 12 /\ AbsMinCalls[11].op = "select"
  BY AbsMinAt, FieldsOf
<1>2. /\ First(AbsMinCalls[11]) = 0 /\ End(AbsMinCalls[11]) = 1
      /\ OutsAt(AbsMinCalls[11], 0) = {Wire("sel1"), Wire("sel2")}
  BY <1>1 DEF First, End, OutsAt
<1>3. MadeTo(c, AbsMinCalls[11], End(AbsMinCalls[11])) /\ Settled(c, v)
  BY <1>1 DEF Datapath
<1>4. 0 \in 0 .. (1 - 1)
  OBVIOUS
<1>5. Gated(c, Wire("sel1")) /\ Gated(c, Wire("sel2"))
  BY <1>2, <1>3, <1>4 DEF MadeTo
<1>6. /\ ~IsSink(Wire("sel1")) /\ Canon(Wire("sel1")) = Base(<<"sel1">>, NoBit)
      /\ ~IsSink(Wire("sel2")) /\ Canon(Wire("sel2")) = Base(<<"sel2">>, NoBit)
  <2>1. <<"sel1">> \in BasePrefixes /\ <<"sel2">> \in BasePrefixes
    BY DEF BasePrefixes
  <2>. QED
    BY <2>1, CanonBase, WireIs
<1>7. /\ Base(<<"sel1">>, NoBit) = Gate("or2", <<Bit(fiveX, Width - 1), Bit(threeY, Width - 1)>>)
      /\ Base(<<"sel2">>, NoBit) = Gate("buf1", <<Bit(diff, Width - 1)>>)
  BY BasesApart DEF Base
<1>8. HasGate(c, Wire("sel1"), Gate("or2", <<Bit(fiveX, Width - 1), Bit(threeY, Width - 1)>>))
  BY <1>3, <1>5, <1>6, <1>7, CanonReads
<1>9. HasGate(c, Wire("sel2"), Gate("buf1", <<Bit(diff, Width - 1)>>))
  BY <1>3, <1>5, <1>6, <1>7, CanonReads
<1>. QED
  BY <1>3, <1>8, <1>9, OrReads, BufReads

(* The multiplexers choose a whole word. *)
Chosen(c) ==
  IF c[Wire("sel1")].val = 0 THEN (IF c[Wire("sel2")].val = 0 THEN threeY ELSE fiveX)
  ELSE (IF c[Wire("sel2")].val = 0 THEN minus3Y ELSE minus5X)

LEMMA MuxChooses ==
  ASSUME NEW c, NEW v, Datapath(c, v), OwnTo(c, AbsMinCalls[12], End(AbsMinCalls[12])),
         AreBits(Word(c, Chosen(c)), Width)
  PROVE  NumberOf(Word(c, z), Width) = NumberOf(Word(c, Chosen(c)), Width)
<1>1. Width \in Nat
  BY SizesAssumption DEF Width
<1>2. AbsMinCalls[12].op = "mux"
  BY AbsMinAt, FieldsOf
<1>3. First(AbsMinCalls[12]) = 0 /\ End(AbsMinCalls[12]) = Width
  BY <1>2 DEF First, End
<1>4. Settled(c, v)
  BY DEF Datapath
<1>5. ASSUME NEW j \in 0 .. (Width - 1)
      PROVE  Word(c, z)[j] = Word(c, Chosen(c))[j]
  <2>1. OwnAt(c, AbsMinCalls[12], j)
    BY <1>3 DEF OwnTo
  <2>2. HasGate(c, Bit(z, j), Gate("mux4", <<Wire("sel1"), Wire("sel2"), Bit(minus5X, j), Bit(minus3Y, j),
                                             Bit(fiveX, j), Bit(threeY, j)>>))
    BY <1>2, <2>1 DEF OwnAt
  <2>3. c[Bit(z, j)].val = IF c[Wire("sel1")].val = 0
                           THEN (IF c[Wire("sel2")].val = 0 THEN c[Bit(threeY, j)].val ELSE c[Bit(fiveX, j)].val)
                           ELSE (IF c[Wire("sel2")].val = 0 THEN c[Bit(minus3Y, j)].val ELSE c[Bit(minus5X, j)].val)
    BY <1>4, <2>2, MuxReads
  <2>4. c[Bit(z, j)].val = c[Bit(Chosen(c), j)].val
    BY <2>3, Zenon DEF Chosen
  <2>5. j \in Nat
    BY <1>1
  <2>. QED
    BY <2>4, <2>5 DEF Word
<1>6. PICK u, w : u = Word(c, z) /\ w = Word(c, Chosen(c))
  OBVIOUS
<1>7. NumberOf(u, Width) = NumberOf(w, Width)
  <2>1. AreBits(w, Width) /\ \A j \in 0 .. (Width - 1) : u[j] = w[j]
    BY <1>5, <1>6
  <2>. QED
    BY <1>1, <2>1, NumberSame
<1>. QED
  BY <1>6, <1>7

LEMMA DatapathZeros ==
  ASSUME NEW c, NEW v, Datapath(c, v)
  PROVE  NumberOf(Word(c, zeros), Width) = 0
<1>1. Width \in Nat
  BY SizesAssumption DEF Width
<1>2. 1 \in 1 .. 12 /\ AbsMinCalls[1].op = "ports"
  BY AbsMinAt, FieldsOf
<1>3. ASSUME NEW j \in 0 .. (Width - 1) PROVE Word(c, zeros)[j] = 0
  <2>1. Bit(zeros, j) \in Bits(zeros, Width)
    BY <1>1, BitsHave
  <2>2. Bit(zeros, j) \in Created(AbsMinCalls[1])
    BY <1>2, <2>1 DEF Created
  <2>3. Bit(zeros, j) \in DOMAIN c /\ Settled(c, v)
    BY <1>2, <2>2 DEF Datapath
  <2>4. IsZero(Bit(zeros, j))
    BY BitIs DEF IsZero, ZeroPrefixes, zeros
  <2>5. c[Bit(zeros, j)].val = 0
    BY <2>3, <2>4, ConstantReads
  <2>. QED
    BY <1>1, <2>5 DEF Word
<1>. QED
  BY <1>1, <1>3, NumberOfZeros

(* What the four words the multiplexers choose from are, where they count. *)
LEMMA DatapathChoices ==
  ASSUME NEW c, NEW v, Datapath(c, v), NEW h \in Nat, NEW a \in Int, NEW b \in Int, Scaled(c, h, a, b)
  PROVE  /\ AreBits(Word(c, minus5X), Width) /\ (5 * a < 0 => NumberOf(Word(c, minus5X), Width) = -(5 * a))
         /\ AreBits(Word(c, minus3Y), Width) /\ (3 * b < 0 => NumberOf(Word(c, minus3Y), Width) = -(3 * b))
         /\ AreBits(Word(c, diff), Width) /\ (NumberOf(Word(c, diff), Width) >= 8 * h <=> 5 * a < 3 * b)
<1>1. Width \in Nat
  BY SizesAssumption DEF Width
<1>2. /\ h >= 1 /\ 2 ^ Width = 16 * h /\ -h <= a /\ a < h /\ -h <= b /\ b < h
      /\ NumberOf(Word(c, fiveX), Width) = Wrapped(5 * a, h) /\ NumberOf(Word(c, threeY), Width) = Wrapped(3 * b, h)
  BY DEF Scaled
<1>3. PICK m \in Nat : m = 16 * h /\ m = 2 ^ Width
  BY <1>2
<1>4. PICK five \in Int, three \in Int : five = 5 * a /\ three = 3 * b
  OBVIOUS
<1>5. -(8 * h) <= five /\ -(8 * h) <= three /\ -(8 * h) <= five - three /\ five - three < 8 * h
  BY <1>2, <1>4
<1>6. AreBits(Word(c, minus5X), Width) /\ (five < 0 => NumberOf(Word(c, minus5X), Width) = -five)
  <2>1. PICK i \in {8, 9, 10} : i = 8
    OBVIOUS
  <2>2. PICK bo \in {0, 1} :
          /\ NumberOf(Word(c, zeros), Width) - NumberOf(Word(c, fiveX), Width) = NumberOf(Word(c, minus5X), Width) - 2 ^ Width * bo
          /\ AreBits(Word(c, minus5X), Width)
    BY <2>1, DatapathDifferences, DatapathCalls
  <2>3. PICK d \in Nat : d = NumberOf(Word(c, minus5X), Width) /\ d < m
    BY <1>1, <1>3, <2>2, NumberBelow
  <2>4. 0 - Wrapped(five, h) = d - m * bo /\ d < 16 * h
    BY <1>2, <1>3, <1>4, <2>2, <2>3, DatapathZeros
  <2>5. ASSUME five < 0 PROVE d = -five
    <3>1. h >= 1 /\ -(8 * h) <= five /\ m = 16 * h
      BY <1>2, <1>3, <1>5
    <3>. QED
      BY <2>4, <2>5, <3>1, WrappedNegation
  <2>. QED
    BY <2>2, <2>3, <2>5
<1>7. AreBits(Word(c, minus3Y), Width) /\ (three < 0 => NumberOf(Word(c, minus3Y), Width) = -three)
  <2>1. PICK i \in {8, 9, 10} : i = 9
    OBVIOUS
  <2>2. PICK bo \in {0, 1} :
          /\ NumberOf(Word(c, zeros), Width) - NumberOf(Word(c, threeY), Width) = NumberOf(Word(c, minus3Y), Width) - 2 ^ Width * bo
          /\ AreBits(Word(c, minus3Y), Width)
    BY <2>1, DatapathDifferences, DatapathCalls
  <2>3. PICK d \in Nat : d = NumberOf(Word(c, minus3Y), Width) /\ d < m
    BY <1>1, <1>3, <2>2, NumberBelow
  <2>4. 0 - Wrapped(three, h) = d - m * bo /\ d < 16 * h
    BY <1>2, <1>3, <1>4, <2>2, <2>3, DatapathZeros
  <2>5. ASSUME three < 0 PROVE d = -three
    <3>1. h >= 1 /\ -(8 * h) <= three /\ m = 16 * h
      BY <1>2, <1>3, <1>5
    <3>. QED
      BY <2>4, <2>5, <3>1, WrappedNegation
  <2>. QED
    BY <2>2, <2>3, <2>5
<1>8. AreBits(Word(c, diff), Width) /\ (NumberOf(Word(c, diff), Width) >= 8 * h <=> five < three)
  <2>1. PICK i \in {8, 9, 10} : i = 10
    OBVIOUS
  <2>2. PICK bo \in {0, 1} :
          /\ NumberOf(Word(c, fiveX), Width) - NumberOf(Word(c, threeY), Width) = NumberOf(Word(c, diff), Width) - 2 ^ Width * bo
          /\ AreBits(Word(c, diff), Width)
    BY <2>1, DatapathDifferences, DatapathCalls
  <2>3. PICK d \in Nat : d = NumberOf(Word(c, diff), Width) /\ d < m
    BY <1>1, <1>3, <2>2, NumberBelow
  <2>4. Wrapped(five, h) - Wrapped(three, h) = d - m * bo /\ d < 16 * h
    BY <1>2, <1>3, <1>4, <2>2, <2>3
  <2>5. d >= 8 * h <=> five < three
    BY <1>2, <1>3, <1>5, <2>4, WrappedDifference
  <2>. QED
    BY <2>2, <2>3, <2>5
<1>. QED
  BY <1>4, <1>6, <1>7, <1>8

LEMMA AbsMinComputes ==
  ASSUME MInv, saved, option.op = "absmin"
  PROVE  LET least == Lesser(5 * Signed(x, InBits), 3 * Signed(y, InBits))
         IN Number(z, Width) = IF least < 0 THEN -least ELSE least
<1>1. PICK c, v : c = circuit /\ v = given
  OBVIOUS
<1>2. Datapath(c, v) /\ OwnTo(c, AbsMinCalls[12], End(AbsMinCalls[12]))
  BY <1>1, DatapathReady
<1>3. PICK h \in Nat, a \in Int, b \in Int : Scaled(c, h, a, b)
  BY <1>2, DatapathScaled
<1>4. /\ h >= 1 /\ 2 ^ (InBits + 2) = 8 * h
      /\ NumberOf(Word(c, x), InBits) - 2 ^ InBits * c[Bit(x, InBits - 1)].val = a
      /\ NumberOf(Word(c, y), InBits) - 2 ^ InBits * c[Bit(y, InBits - 1)].val = b
      /\ AreBits(Word(c, fiveX), Width) /\ NumberOf(Word(c, fiveX), Width) = Wrapped(5 * a, h)
      /\ (NumberOf(Word(c, fiveX), Width) >= 8 * h <=> 5 * a < 0)
      /\ AreBits(Word(c, threeY), Width) /\ NumberOf(Word(c, threeY), Width) = Wrapped(3 * b, h)
      /\ (NumberOf(Word(c, threeY), Width) >= 8 * h <=> 3 * b < 0)
  BY <1>3 DEF Scaled
<1>5. /\ AreBits(Word(c, minus5X), Width) /\ (5 * a < 0 => NumberOf(Word(c, minus5X), Width) = -(5 * a))
      /\ AreBits(Word(c, minus3Y), Width) /\ (3 * b < 0 => NumberOf(Word(c, minus3Y), Width) = -(3 * b))
      /\ AreBits(Word(c, diff), Width) /\ (NumberOf(Word(c, diff), Width) >= 8 * h <=> 5 * a < 3 * b)
  BY <1>2, <1>3, DatapathChoices
<1>6. Signed(x, InBits) = a /\ Signed(y, InBits) = b /\ Number(z, Width) = NumberOf(Word(c, z), Width)
  <2>1. InBits \in Nat /\ Width \in Nat
    BY SizesAssumption DEF Width
  <2>. QED
    BY <1>1, <1>4, <2>1, NumberIs DEF Signed, val
<1>7. PICK five \in Int, three \in Int, least \in Int : five = 5 * a /\ three = 3 * b /\ least = Lesser(five, three)
  BY DEF Lesser
<1>8. /\ (c[Bit(fiveX, Width - 1)].val = 1 <=> five < 0)
      /\ (c[Bit(threeY, Width - 1)].val = 1 <=> three < 0)
      /\ (c[Bit(diff, Width - 1)].val = 1 <=> five < three) /\ c[Bit(diff, Width - 1)].val \in {0, 1}
  BY <1>4, <1>5, <1>7, WordTop
<1>9. /\ c[Wire("sel1")].val = (IF five < 0 \/ three < 0 THEN 1 ELSE 0)
      /\ c[Wire("sel2")].val = (IF five < three THEN 1 ELSE 0)
  BY <1>2, <1>8, SelectReads
<1>10. /\ Chosen(c) \in {fiveX, threeY, minus5X, minus3Y}
       /\ NumberOf(Word(c, Chosen(c)), Width) = IF least < 0 THEN -least ELSE least
  <2>1. CASE ~(five < 0) /\ ~(three < 0) /\ five < three
    <3>1. Chosen(c) = fiveX
      BY <1>9, <2>1 DEF Chosen
    <3>2. least = five /\ Wrapped(five, h) = five
      BY <1>7, <2>1 DEF Lesser, Wrapped
    <3>. QED
      BY <1>4, <1>7, <2>1, <3>1, <3>2
  <2>2. CASE ~(five < 0) /\ ~(three < 0) /\ ~(five < three)
    <3>1. Chosen(c) = threeY
      BY <1>9, <2>2 DEF Chosen
    <3>2. least = three /\ Wrapped(three, h) = three
      BY <1>7, <2>2 DEF Lesser, Wrapped
    <3>. QED
      BY <1>4, <1>7, <2>2, <3>1, <3>2
  <2>3. CASE (five < 0 \/ three < 0) /\ five < three
    <3>1. Chosen(c) = minus5X
      BY <1>9, <2>3 DEF Chosen
    <3>2. least = five /\ five < 0
      BY <1>7, <2>3 DEF Lesser
    <3>. QED
      BY <1>5, <1>7, <3>1, <3>2
  <2>4. CASE (five < 0 \/ three < 0) /\ ~(five < three)
    <3>1. Chosen(c) = minus3Y
      BY <1>9, <2>4 DEF Chosen
    <3>2. least = three /\ three < 0
      BY <1>7, <2>4 DEF Lesser
    <3>. QED
      BY <1>5, <1>7, <3>1, <3>2
  <2>. QED
    BY <2>1, <2>2, <2>3, <2>4
<1>11. AreBits(Word(c, Chosen(c)), Width)
  BY <1>4, <1>5, <1>10
<1>12. NumberOf(Word(c, z), Width) = NumberOf(Word(c, Chosen(c)), Width)
  BY <1>2, <1>11, MuxChooses
<1>13. Number(z, Width) = IF least < 0 THEN -least ELSE least
  BY <1>6, <1>10, <1>12
<1>14. least = Lesser(5 * Signed(x, InBits), 3 * Signed(y, InBits))
  BY <1>6, <1>7
<1>. QED
  BY <1>13, <1>14

(* main.cpp:150-153: the outputs of every saved module are the function of its  *)
(* inputs that its option names, for every width, every shift and all input  *)
(* values, whatever modules were built before into the same circuit.         *)
THEOREM ModulesCompute == Spec => []ModuleComputes
<1>1. ASSUME MInv, saved PROVE ModuleComputes
  <2>1. option.op \in {"add", "sub", "shift", "absmin"}
    BY <1>1, SavedModule DEF Option
  <2>2. CASE option.op = "add"
    BY <1>1, <2>2, AdderComputes DEF ModuleComputes
  <2>3. CASE option.op = "sub"
    BY <1>1, <2>3, SubtractorComputes DEF ModuleComputes
  <2>4. CASE option.op = "shift"
    BY <1>1, <2>4, ShifterComputes DEF ModuleComputes
  <2>5. CASE option.op = "absmin"
    BY <1>1, <2>5, AbsMinComputes DEF ModuleComputes
  <2>. QED
    BY <2>1, <2>2, <2>3, <2>4, <2>5
<1>2. MInv => ModuleComputes
  <2>1. ~saved => ModuleComputes
    BY DEF ModuleComputes
  <2>. QED
    BY <1>1, <2>1
<1>. QED
  BY <1>2, MInitially, MSteps, PTL DEF Spec
=============================================================================
