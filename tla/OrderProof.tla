------------------------------ MODULE OrderProof ------------------------------
(***************************************************************************)
(* Along every path of every BDD the variables increase, in runs of any    *)
(* length over any variables, as long as no lookup has met a doomed entry. *)
(*                                                                         *)
(* The argument is about room: the variables that may be tested above a    *)
(* node.  A node is ordered when its variable has room above its children, *)
(* and every function of the package returns a node with at least the room *)
(* its arguments have in common.                                           *)
(***************************************************************************)
EXTENDS BddProof, BddMeaning

\* The variables that may be tested above node n.
Room(h, n) == {v \in Nat : n \in {Zero, One} \/ v < h[n].var}

OrderedNode(h, n) == \A c \in {h[n].neg, h[n].pos} : h[n].var \in Room(h, c)

\* A remembered result has the room of its operands, while they live.
OrderedEntry(h, k, n) ==
  /\ {k.lhs, k.rhs} \subseteq DOMAIN h
  /\ Room(h, k.lhs) \cap Room(h, k.rhs) \subseteq Room(h, n)

\* The pointers an activation was called with, and those it has obtained.
Args(f)    == IF f.fn = "apply" THEN {f.l, f.r} ELSE {f.l}
Partial(f) == ((IF f.fn = "apply" THEN {} ELSE {f.r}) \cup {f.a, f.b}) \ {Null}

\* n has the room an activation needs of what it works with: apply puts its
\* variable above it, the others want no less room than their argument has.
Serves(h, f, n) == IF f.fn = "apply" THEN f.var \in Room(h, n) ELSE Room(h, f.l) \subseteq Room(h, n)

\* The variable apply splits by is that of an operand, and not below the other.
Splits(h, f) ==
  /\ f.var \in {h[f.l].var, h[f.r].var}
  /\ \A n \in {f.l, f.r} : h[n].var = f.var \/ f.var \in Room(h, n)
  /\ \A v \in Room(h, f.l) \cap Room(h, f.r) : v < f.var

OrderedFrame(h, f) ==
  /\ f.at = "enter" => Partial(f) = {}
  /\ \A n \in Partial(f) : Serves(h, f, n)
  /\ f.fn = "apply" /\ f.at # "enter" => Splits(h, f)

OrderedHeap    == \A n \in DOMAIN heap \ {Zero, One} : OrderedNode(heap, n)
OrderedEntries == \A k \in DOMAIN computed \ doomed : OrderedEntry(heap, k, computed[k])
OrderedStack   ==
  /\ \A i \in DOMAIN stack : OrderedFrame(heap, stack[i])
  /\ \A i \in DOMAIN stack : i + 1 \in DOMAIN stack =>
       \A n \in Args(stack[i + 1]) : Serves(heap, stack[i], n)
  /\ ret # Null /\ stack # <<>> => Serves(heap, Top, ret)

OInv == OrderedHeap /\ OrderedEntries /\ OrderedStack

----------------------------------------------------------------------------
\* Room depends on nothing but the variable of a node.
LEMMA RoomKept ==
  ASSUME NEW g, NEW h, Agree(g, h), NEW n, n \in DOMAIN g, n \in DOMAIN h
  PROVE  Room(h, n) = Room(g, n)
BY DEF Agree, Room

\* What a frame says of its pointers goes on being so while they live.
LEMMA ServesKept ==
  ASSUME NEW g, NEW h, Agree(g, h), NEW f, f.l \in DOMAIN g, f.l \in DOMAIN h,
         NEW n, n \in DOMAIN g, n \in DOMAIN h, Serves(g, f, n)
  PROVE  Serves(h, f, n)
BY RoomKept DEF Serves

\* A frame stays ordered while what it holds lives.
LEMMA OrderedFrameKept ==
  ASSUME NEW g, NEW h, Agree(g, h), NEW f, OrderedFrame(g, f),
         Held(f) \subseteq DOMAIN g, Held(f) \subseteq DOMAIN h,
         f.l # Null, f.fn = "apply" => f.r # Null
  PROVE  OrderedFrame(h, f)
<1>1. f.l \in DOMAIN g /\ f.l \in DOMAIN h
  BY DEF Held
<1>2. ASSUME NEW n \in Partial(f) PROVE Serves(h, f, n)
  <2>1. n \in DOMAIN g /\ n \in DOMAIN h
    BY <1>2 DEF Held, Partial
  <2>. QED
    BY <1>1, <2>1, ServesKept DEF OrderedFrame
<1>3. ASSUME f.fn = "apply", f.at # "enter" PROVE Splits(h, f)
  <2>1. \A n \in {f.l, f.r} : Room(h, n) = Room(g, n) /\ h[n].var = g[n].var
    <3>1. f.r \in DOMAIN g /\ f.r \in DOMAIN h
      BY <1>3 DEF Held
    <3>. QED
      BY <1>1, <3>1, RoomKept DEF Agree
  <2>. QED
    BY <1>3, <2>1 DEF OrderedFrame, Splits
<1>. QED
  BY <1>2, <1>3 DEF OrderedFrame

\* A node with at least the room the arguments of a call have in common serves
\* whom they served.
LEMMA ServesPasses ==
  ASSUME NEW g, NEW h, NEW f, NEW A, NEW n, f.fn = "apply" \/ Room(h, f.l) = Room(g, f.l),
         A # {}, \A m \in A : Serves(g, f, m),
         \A v \in Nat : (\A m \in A : v \in Room(g, m)) => v \in Room(h, n)
  PROVE  Serves(h, f, n)
<1>1. CASE f.fn = "apply"
  <2>1. \A m \in A : f.var \in Room(g, m)
    BY <1>1 DEF Serves
  <2>2. f.var \in Nat
    BY <2>1 DEF Room
  <2>. QED
    BY <1>1, <2>1, <2>2 DEF Serves
<1>2. CASE f.fn # "apply"
  <2>1. ASSUME NEW v \in Room(h, f.l) PROVE v \in Room(h, n)
    <3>1. v \in Nat /\ \A m \in A : v \in Room(g, m)
      BY <1>2, <2>1 DEF Serves, Room
    <3>. QED
      BY <3>1
  <2>. QED
    BY <1>2, <2>1 DEF Serves
<1>. QED
  BY <1>1, <1>2

----------------------------------------------------------------------------
\* What every pair of good states of a step gives.
Steps == MachineInv /\ MachineInv' /\ Agree(heap, heap')

\* The store stays ordered when the node a step adds, if any, and the results
\* it remembers are.
LEMMA StoreOrdered ==
  ASSUME Steps, OrderedHeap, OrderedEntries,
         NEW h, NEW ids, NEW stale, Release(h, ids, stale), DOMAIN heap \subseteq DOMAIN h,
         \A n \in DOMAIN heap' \ DOMAIN heap : OrderedNode(heap', n),
         \A k \in DOMAIN computed' \ stale :
           \/ k \in DOMAIN computed \ doomed /\ computed'[k] = computed[k]
           \/ /\ {k.lhs, k.rhs} \subseteq DOMAIN heap
              /\ Room(heap, k.lhs) \cap Room(heap, k.rhs) \subseteq Room(heap', computed'[k])
  PROVE  OrderedHeap' /\ OrderedEntries'
<1>1. GoodHeap(heap) /\ GoodHeap(heap') /\ GoodComputed(heap, computed) /\ GoodComputed(heap', computed')
  BY DEF Steps, MachineInv, StoreInv
<1>2. \A n \in DOMAIN heap \cap DOMAIN heap' : Room(heap', n) = Room(heap, n)
  BY RoomKept DEF Steps
<1>3. ASSUME NEW n \in DOMAIN heap' \ {Zero, One}, n \in DOMAIN heap
      PROVE  OrderedNode(heap', n)
  <2>1. heap'[n].var = heap[n].var /\ heap'[n].neg = heap[n].neg /\ heap'[n].pos = heap[n].pos
    BY <1>3 DEF Steps, Agree
  <2>2. {heap[n].neg, heap[n].pos} \subseteq DOMAIN heap \cap DOMAIN heap'
    BY <1>1, <1>3, <2>1 DEF GoodHeap, Usable
  <2>3. \A c \in {heap[n].neg, heap[n].pos} : heap[n].var \in Room(heap, c)
    BY <1>3 DEF OrderedHeap, OrderedNode
  <2>. QED
    BY <1>2, <2>1, <2>2, <2>3 DEF OrderedNode
<1>4. OrderedHeap'
  BY <1>3 DEF OrderedHeap
<1>5. ASSUME NEW k \in DOMAIN computed' \ doomed' PROVE OrderedEntry(heap', k, computed'[k])
  <2>1. k \notin stale /\ {k.lhs, k.rhs} \cap DOMAIN h \subseteq DOMAIN heap'
    <3>1. /\ doomed' = {j \in DOMAIN computed' :
                          j \in stale \/ {j.lhs, j.rhs} \cap (DOMAIN h \ Live(h, Roots')) # {}}
          /\ heap' = Restrict(h, Live(h, Roots'))
      BY DEF Release, Collect
    <3>2. DOMAIN heap' = Live(h, Roots')
      BY <3>1 DEF Restrict
    <3>. QED
      BY <1>5, <3>1, <3>2
  <2>2. /\ {k.lhs, k.rhs} \subseteq DOMAIN heap
        /\ Room(heap, k.lhs) \cap Room(heap, k.rhs) \subseteq Room(heap', computed'[k])
    <3>1. CASE k \in DOMAIN computed \ doomed /\ computed'[k] = computed[k]
      <4>1. computed[k] \in DOMAIN heap \cap DOMAIN heap'
        BY <1>1, <1>5, <3>1 DEF GoodComputed, Usable
      <4>. QED
        BY <1>2, <3>1, <4>1 DEF OrderedEntries, OrderedEntry
    <3>. QED
      BY <1>5, <2>1, <3>1
  <2>3. {k.lhs, k.rhs} \subseteq DOMAIN heap'
    BY <2>1, <2>2
  <2>. QED
    BY <1>2, <2>2, <2>3 DEF OrderedEntry
<1>. QED
  BY <1>4, <1>5 DEF OrderedEntries

\* A step that makes no node and remembers nothing keeps the store ordered.
LEMMA QuietStoreOrdered ==
  ASSUME Steps, OrderedHeap, OrderedEntries, computed' = computed,
         NEW h, NEW ids, Release(h, ids, doomed), DOMAIN h = DOMAIN heap
  PROVE  OrderedHeap' /\ OrderedEntries'
<1>1. DOMAIN heap' \subseteq DOMAIN heap
  BY ReleaseShrinks
<1>. QED
  BY <1>1, StoreOrdered

----------------------------------------------------------------------------
\* An activation just made has obtained nothing yet.
LEMMA CallIsFresh ==
  ASSUME NEW fn, NEW op, NEW v, NEW l, NEW r, NEW h, fn # "apply" => r = Null
  PROVE  OrderedFrame(h, Activation(fn, op, v, l, r))
BY DEF OrderedFrame, Activation, Partial

\* A frame on the stack, and the nodes it holds.
LEMMA FrameHolds ==
  ASSUME MachineInv, NEW i \in DOMAIN stack
  PROVE  /\ Held(stack[i]) \subseteq DOMAIN heap /\ stack[i].l # Null
         /\ stack[i].fn = "apply" => stack[i].r # Null
         /\ stack[i].l \in DOMAIN heap
         /\ Args(stack[i]) \subseteq DOMAIN heap
<1>1. GoodFrame(heap, unique, stack[i]) /\ Held(stack[i]) \subseteq Locals
  BY DEF MachineInv, StackInv, Locals
<1>2. Held(stack[i]) \subseteq DOMAIN heap
  BY <1>1 DEF MachineInv, LocalsInv, Usable
<1>. QED
  BY <1>1, <1>2 DEF GoodFrame, ApplyFrame, Args, Held

\* The same after a step.
LEMMA FrameHoldsNext ==
  ASSUME MachineInv', NEW i \in DOMAIN stack'
  PROVE  /\ Held(stack'[i]) \subseteq DOMAIN heap'
         /\ stack'[i].l \in DOMAIN heap'
         /\ Args(stack'[i]) \subseteq DOMAIN heap'
<1>1. GoodFrame(heap', unique', stack'[i]) /\ Held(stack'[i]) \subseteq Locals'
  BY DEF MachineInv, StackInv, Locals
<1>2. Held(stack'[i]) \subseteq DOMAIN heap'
  BY <1>1 DEF MachineInv, LocalsInv, Usable
<1>. QED
  BY <1>1, <1>2 DEF GoodFrame, ApplyFrame, Args, Held

\* The frames a step leaves on the stack stay ordered, and serve their callees.
LEMMA FramesKept ==
  ASSUME Steps, OrderedStack, NEW i \in DOMAIN stack, NEW j \in DOMAIN stack', stack'[j] = stack[i]
  PROVE  /\ OrderedFrame(heap', stack'[j])
         /\ \A n \in DOMAIN heap \cap DOMAIN heap' : Serves(heap, stack[i], n) => Serves(heap', stack'[j], n)
<1>. DEFINE f == stack[i]
<1>1. Held(f) \subseteq DOMAIN heap /\ f.l # Null /\ (f.fn = "apply" => f.r # Null) /\ f.l \in DOMAIN heap
  BY FrameHolds DEF Steps
<1>2. Held(f) \subseteq DOMAIN heap' /\ f.l \in DOMAIN heap'
  BY FrameHoldsNext DEF Steps
<1>3. OrderedFrame(heap, f) /\ Agree(heap, heap')
  BY DEF OrderedStack, Steps
<1>. HIDE DEF f
<1>4. OrderedFrame(heap', f)
  BY <1>1, <1>2, <1>3, OrderedFrameKept
<1>5. \A n \in DOMAIN heap \cap DOMAIN heap' : Serves(heap, f, n) => Serves(heap', f, n)
  BY <1>1, <1>2, <1>3, ServesKept
<1>. QED
  BY <1>4, <1>5 DEF f

\* What a call makes of the stack.
LEMMA CallPushes ==
  ASSUME stack \in Seq(Frame), stack # <<>>, NEW f, NEW callee, Call(f, callee)
  PROVE  /\ Len(stack) \in Nat \ {0} /\ DOMAIN stack = 1 .. Len(stack)
         /\ DOMAIN stack' = 1 .. (Len(stack) + 1) /\ ret' = Null
         /\ \A i \in 1 .. (Len(stack) - 1) : stack'[i] = stack[i]
         /\ stack'[Len(stack)] = f /\ stack'[Len(stack) + 1] = callee
<1>1. Len(stack) \in Nat \ {0} /\ DOMAIN stack = 1 .. Len(stack)
  BY EmptySeq, LenProperties
<1>. DEFINE rest == Front(stack)
            S == Frame \cup {f, callee}
<1>2. rest \in Seq(Frame) /\ Len(rest) = Len(stack) - 1
      /\ \A i \in 1 .. (Len(stack) - 1) : rest[i] = stack[i]
  BY <1>1, SubSeqProperties DEF Front
<1>. HIDE DEF rest
<1>3. stack' = Append(Append(rest, f), callee) /\ ret' = Null
  BY DEF Call, rest
<1>4. rest \in Seq(S) /\ f \in S /\ callee \in S /\ Len(rest) \in Nat
  BY <1>1, <1>2, SeqMonotonic
<1>. HIDE DEF S
<1>5. /\ Len(stack') = Len(rest) + 2 /\ DOMAIN stack' = 1 .. Len(stack')
      /\ \A i \in 1 .. Len(rest) : stack'[i] = rest[i]
      /\ stack'[Len(rest) + 1] = f /\ stack'[Len(rest) + 2] = callee
  <2>1. stack' = Append(Append(rest, f), callee)
    BY <1>3
  <2>. QED
    BY <1>4, <2>1
<1>. DEFINE len == Len(stack)
<1>6. len \in Nat \ {0} /\ Len(rest) = len - 1 /\ \A i \in 1 .. (len - 1) : rest[i] = stack[i]
  BY <1>1, <1>2
<1>. HIDE DEF len
<1>7. /\ DOMAIN stack' = 1 .. (len + 1)
      /\ \A i \in 1 .. (len - 1) : stack'[i] = stack[i]
      /\ stack'[len] = f /\ stack'[len + 1] = callee
  BY <1>5, <1>6
<1>. QED
  BY <1>1, <1>3, <1>7 DEF len

\* A call of an ordered frame with arguments that serve it keeps the stack ordered.
LEMMA CallStackOrdered ==
  ASSUME Steps, OrderedStack, stack # <<>>,
         NEW f, NEW callee, Call(f, callee), Held(f) \cup Held(callee) \subseteq DOMAIN heap,
         Args(f) = Args(Top), OrderedFrame(heap, f), OrderedFrame(heap, callee),
         \A n \in Args(callee) : Serves(heap, f, n)
  PROVE  OrderedStack'
<1>1. /\ MachineInv /\ MachineInv' /\ stack \in Seq(Frame)
  BY DEF Steps, MachineInv, StackInv
<1>. DEFINE len == Len(stack)
<1>2. /\ len \in Nat \ {0} /\ DOMAIN stack = 1 .. len
      /\ DOMAIN stack' = 1 .. (len + 1) /\ ret' = Null
      /\ \A i \in 1 .. (len - 1) : stack'[i] = stack[i]
      /\ stack'[len] = f /\ stack'[len + 1] = callee
  BY <1>1, CallPushes
<1>3. ret' = Null
  BY <1>2
<1>4. /\ DOMAIN stack' = 1 .. (len + 1)
      /\ \A i \in 1 .. (len - 1) : stack'[i] = stack[i]
      /\ stack'[len] = f /\ stack'[len + 1] = callee
  BY <1>2
<1>5. len \in Nat \ {0} /\ DOMAIN stack = 1 .. len /\ Top = stack[len]
  BY <1>2 DEF Top
<1>. HIDE DEF len
<1>6. /\ Held(f) \subseteq DOMAIN heap /\ f.l # Null /\ (f.fn = "apply" => f.r # Null)
      /\ Held(callee) \subseteq DOMAIN heap /\ callee.l # Null
      /\ (callee.fn = "apply" => callee.r # Null)
      /\ f.l \in DOMAIN heap /\ Args(f) \subseteq DOMAIN heap /\ Args(callee) \subseteq DOMAIN heap
  <2>1. len \in DOMAIN stack' /\ len + 1 \in DOMAIN stack'
    BY <1>4, <1>5
  <2>2. GoodFrame(heap', unique', f) /\ GoodFrame(heap', unique', callee)
    BY <1>1, <1>4, <2>1 DEF MachineInv, StackInv
  <2>. QED
    BY <2>2 DEF GoodFrame, ApplyFrame, Args, Held
<1>7. ASSUME NEW j \in DOMAIN stack'
      PROVE  /\ Held(stack'[j]) \subseteq DOMAIN heap' /\ stack'[j].l \in DOMAIN heap'
             /\ Args(stack'[j]) \subseteq DOMAIN heap'
  BY <1>1, FrameHoldsNext
<1>8. f.l \in DOMAIN heap' /\ Held(f) \subseteq DOMAIN heap' /\ Args(f) \subseteq DOMAIN heap'
      /\ Held(callee) \subseteq DOMAIN heap' /\ Args(callee) \subseteq DOMAIN heap'
  BY <1>4, <1>5, <1>7
<1>9. Agree(heap, heap')
  BY DEF Steps
<1>10. OrderedFrame(heap', f) /\ OrderedFrame(heap', callee)
  BY <1>6, <1>8, <1>9, OrderedFrameKept
<1>11. \A n \in Args(callee) : Serves(heap', f, n)
  BY <1>6, <1>8, <1>9, ServesKept
<1>12. ASSUME NEW i \in 1 .. (len - 1)
       PROVE  /\ OrderedFrame(heap', stack'[i])
              /\ \A n \in Args(stack'[i + 1]) : Serves(heap', stack'[i], n)
  <2>1. i \in DOMAIN stack /\ i \in DOMAIN stack' /\ stack'[i] = stack[i] /\ i + 1 \in DOMAIN stack
        /\ i + 1 \in DOMAIN stack'
    BY <1>4, <1>5
  <2>2. Args(stack'[i + 1]) = Args(stack[i + 1])
    <3>1. CASE i + 1 = len
      BY <1>4, <1>5, <3>1
    <3>2. CASE i + 1 # len
      <4>1. i + 1 \in 1 .. (len - 1)
        BY <1>5, <3>2
      <4>. QED
        BY <1>4, <4>1
    <3>. QED
      BY <3>1, <3>2
  <2>3. \A n \in Args(stack[i + 1]) : Serves(heap, stack[i], n)
    BY <2>1 DEF OrderedStack
  <2>4. Args(stack[i + 1]) \subseteq DOMAIN heap /\ Args(stack[i + 1]) \subseteq DOMAIN heap'
    BY <1>1, <1>7, <2>1, <2>2, FrameHolds
  <2>. QED
    BY <2>1, <2>2, <2>3, <2>4, FramesKept
<1>13. ASSUME NEW i \in DOMAIN stack' PROVE OrderedFrame(heap', stack'[i])
  <2>1. i \in 1 .. (len - 1) \/ i = len \/ i = len + 1
    BY <1>4, <1>5
  <2>. QED
    BY <1>4, <1>10, <1>12, <2>1
<1>14. ASSUME NEW i \in DOMAIN stack', i + 1 \in DOMAIN stack'
       PROVE  \A n \in Args(stack'[i + 1]) : Serves(heap', stack'[i], n)
  <2>1. i \in 1 .. (len - 1) \/ i = len
    BY <1>4, <1>5, <1>14
  <2>. QED
    BY <1>4, <1>11, <1>12, <2>1
<1>. QED
  BY <1>3, <1>13, <1>14 DEF OrderedStack

\* A return of a node with the room the arguments have in common does, too.
LEMMA ReturnStackOrdered ==
  ASSUME Steps, OrderedStack, stack # <<>>, NEW n, Return(n),
         \A v \in Nat : (\A m \in Args(Top) : v \in Room(heap, m)) => v \in Room(heap', n)
  PROVE  OrderedStack'
<1>1. /\ MachineInv /\ MachineInv' /\ stack \in Seq(Frame) /\ Len(stack) \in Nat \ {0}
      /\ DOMAIN stack = 1 .. Len(stack)
  BY EmptySeq, LenProperties DEF Steps, MachineInv, StackInv
<1>. DEFINE len == Len(stack)
<1>2. stack' = Front(stack) /\ ret' = n
  BY DEF Return
<1>3. /\ Len(stack') = len - 1 /\ DOMAIN stack' = 1 .. (len - 1)
      /\ \A i \in 1 .. (len - 1) : stack'[i] = stack[i]
  BY <1>1, <1>2, SubSeqProperties DEF Front
<1>4. Top = stack[len]
  BY DEF Top
<1>5. Top' = stack'[len - 1]
  BY <1>3 DEF Top
<1>. HIDE DEF len
<1>6. len \in Nat \ {0} /\ DOMAIN stack = 1 .. len
  BY <1>1 DEF len
<1>7. ASSUME NEW i \in DOMAIN stack'
      PROVE  /\ i \in DOMAIN stack /\ stack'[i] = stack[i]
             /\ OrderedFrame(heap', stack'[i])
             /\ \A m \in DOMAIN heap \cap DOMAIN heap' : Serves(heap, stack[i], m) => Serves(heap', stack'[i], m)
  <2>1. i \in DOMAIN stack /\ stack'[i] = stack[i]
    BY <1>3, <1>6
  <2>. QED
    BY <2>1, FramesKept
<1>8. ASSUME NEW i \in DOMAIN stack', i + 1 \in DOMAIN stack'
      PROVE  \A m \in Args(stack'[i + 1]) : Serves(heap', stack'[i], m)
  <2>1. /\ i \in DOMAIN stack /\ i + 1 \in DOMAIN stack /\ stack'[i + 1] = stack[i + 1]
    BY <1>7, <1>8
  <2>2. \A m \in Args(stack[i + 1]) : Serves(heap, stack[i], m)
    BY <2>1 DEF OrderedStack
  <2>3. Args(stack[i + 1]) \subseteq DOMAIN heap /\ Args(stack'[i + 1]) \subseteq DOMAIN heap'
    BY <1>1, <1>8, <2>1, FrameHolds, FrameHoldsNext
  <2>. QED
    BY <1>7, <2>1, <2>2, <2>3
<1>9. ASSUME stack' # <<>> PROVE Serves(heap', Top', n)
  <2>1. len - 1 \in DOMAIN stack' /\ len - 1 \in DOMAIN stack /\ (len - 1) + 1 = len
    <3>1. len # 1
      BY <1>2, <1>9, <1>1 DEF Front, len
    <3>. QED
      BY <1>3, <1>6, <3>1
  <2>. DEFINE f == stack[len - 1]
  <2>2. \A m \in Args(Top) : Serves(heap, f, m)
    <3>1. PICK i : i = len - 1
      OBVIOUS
    <3>2. i \in DOMAIN stack /\ i + 1 = len /\ i + 1 \in DOMAIN stack
      BY <1>6, <2>1, <3>1
    <3>3. \A m \in Args(stack[i + 1]) : Serves(heap, stack[i], m)
      BY <3>2 DEF OrderedStack
    <3>. QED
      BY <1>4, <3>1, <3>2, <3>3
  <2>3. f.l \in DOMAIN heap /\ f.l \in DOMAIN heap' /\ stack'[len - 1] = f
    BY <1>1, <1>7, <2>1, FrameHolds, FrameHoldsNext
  <2>4. Room(heap', f.l) = Room(heap, f.l)
    BY <2>3, RoomKept DEF Steps
  <2>5. Args(Top) # {}
    BY DEF Args
  <2>. HIDE DEF f
  <2>6. Serves(heap', f, n)
    BY <2>2, <2>4, <2>5, ServesPasses
  <2>. QED
    BY <1>5, <2>3, <2>6
<1>. QED
  BY <1>2, <1>7, <1>8, <1>9 DEF OrderedStack

----------------------------------------------------------------------------
\* The store keeps its order in a step that only calls or returns.
LEMMA CallOrdered ==
  ASSUME Steps, OInv, stack # <<>>, computed' = computed, ReleaseOnly,
         NEW f, NEW callee, Call(f, callee), Held(f) \cup Held(callee) \subseteq DOMAIN heap,
         Args(f) = Args(Top), OrderedFrame(heap, f), OrderedFrame(heap, callee),
         \A n \in Args(callee) : Serves(heap, f, n)
  PROVE  OInv'
BY QuietStoreOrdered, CallStackOrdered DEF ReleaseOnly, OInv

\* The same for a return, apply's terminal case included.
LEMMA ReturnOrdered ==
  ASSUME Steps, OInv, stack # <<>>, computed' = computed,
         NEW h, Release(h, freeIds, doomed), DOMAIN h = DOMAIN heap,
         NEW n \in DOMAIN heap, Return(n),
         \A v \in Nat : (\A m \in Args(Top) : v \in Room(heap, m)) => v \in Room(heap, n)
  PROVE  OInv'
<1>1. n \in DOMAIN heap'
  <2>1. n \in Locals'
    BY DEF Return, Locals, Steps, MachineInv, StoreInv, GoodHeap, Null
  <2>. QED
    BY <2>1 DEF Steps, MachineInv, LocalsInv, Usable
<1>2. Room(heap', n) = Room(heap, n)
  BY <1>1, RoomKept DEF Steps
<1>3. OrderedStack'
  BY <1>2, ReturnStackOrdered DEF OInv
<1>. QED
  BY <1>3, QuietStoreOrdered DEF OInv

\* A call from a cofactor, a difference or a sort, whose needs do not change.
LEMMA HelperCallOrdered ==
  ASSUME Steps, OInv, stack # <<>>, computed' = computed, ReleaseOnly, Top.fn # "apply",
         NEW f, NEW callee, Call(f, callee), f.fn = Top.fn, f.l = Top.l, f.at # "enter",
         Partial(f) \cup Args(callee) \subseteq DOMAIN heap,
         Held(callee) \subseteq Args(callee), OrderedFrame(heap, callee),
         \A n \in Partial(f) \cup Args(callee) : Serves(heap, Top, n)
  PROVE  OInv'
<1>1. Top.l \in DOMAIN heap
  BY TopFrame DEF Steps, Usable
<1>2. Held(f) \cup Held(callee) \subseteq DOMAIN heap
  BY <1>1 DEF Held, Partial
<1>3. Args(f) = Args(Top)
  BY DEF Args
<1>4. \A n : Serves(heap, Top, n) => Serves(heap, f, n)
  BY DEF Serves
<1>5. OrderedFrame(heap, f)
  BY <1>4 DEF OrderedFrame
<1>. QED
  BY <1>2, <1>3, <1>4, <1>5, CallOrdered

\* What the frame of a cofactor, a difference or a sort may rely on.
LEMMA HelperServes ==
  ASSUME MachineInv, OInv, stack # <<>>, Top.fn # "apply"
  PROVE  /\ Top.l \in DOMAIN heap /\ Top \in Frame
         /\ Partial(Top) \subseteq DOMAIN heap
         /\ Serves(heap, Top, Top.l)
         /\ \A n \in Partial(Top) : Serves(heap, Top, n)
         /\ ret # Null => ret \in DOMAIN heap /\ Serves(heap, Top, ret)
         /\ Top.at = "enter" => Partial(Top) = {}
<1>1. Top \in Frame /\ Held(Top) \subseteq Usable(heap) /\ Top.l \in Usable(heap)
  BY TopFrame
<1>2. Partial(Top) \subseteq DOMAIN heap
  BY <1>1 DEF Usable, Held, Partial
<1>3. OrderedFrame(heap, Top)
  <2>1. Len(stack) \in DOMAIN stack
    BY EmptySeq, LenProperties DEF MachineInv, StackInv
  <2>. QED
    BY <2>1 DEF OInv, OrderedStack, Top
<1>4. ret # Null => ret \in DOMAIN heap /\ Serves(heap, Top, ret)
  BY RetUsable DEF OInv, OrderedStack, Usable
<1>5. Serves(heap, Top, Top.l)
  BY DEF Serves
<1>. QED
  BY <1>1, <1>2, <1>3, <1>4, <1>5 DEF OrderedFrame, Usable

\* The calls the package makes, as they start.
LEMMA NewApply ==
  ASSUME NEW op, NEW l, NEW r, NEW h
  PROVE  /\ OrderedFrame(h, ApplyCall(op, l, r)) /\ Args(ApplyCall(op, l, r)) = {l, r}
         /\ Held(ApplyCall(op, l, r)) \subseteq {l, r}
BY CallIsFresh DEF ApplyCall, Activation, Args, Held

\* The same of a new activation of the other functions.
LEMMA NewHelper ==
  ASSUME NEW fn, fn # "apply", NEW op, NEW v, NEW l, NEW h
  PROVE  /\ OrderedFrame(h, Activation(fn, op, v, l, Null)) /\ Args(Activation(fn, op, v, l, Null)) = {l}
         /\ Held(Activation(fn, op, v, l, Null)) \subseteq {l}
BY CallIsFresh DEF Activation, Args, Held

\* There is more room above the children of a node than above the node.
LEMMA ChildRoom ==
  ASSUME MachineInv, OrderedHeap, NEW n \in Usable(heap), n \notin {Zero, One}, NEW branch
  PROVE  /\ Child(n, branch) \in DOMAIN heap /\ heap[n].var \in Room(heap, Child(n, branch))
         /\ Room(heap, n) \subseteq Room(heap, Child(n, branch))
<1>1. Child(n, branch) \in Usable(heap) /\ heap[n].var \in Vars
  BY UsableNode
<1>2. heap[n].var \in Room(heap, Child(n, branch))
  BY DEF OrderedHeap, OrderedNode, Child, Usable
<1>. DEFINE c == Child(n, branch)
<1>3. c \notin {Zero, One} => heap[c].var \in Nat
  BY <1>1, UsableNode, VarsAssumption
<1>. HIDE DEF c
<1>4. heap[n].var \in Nat
  BY <1>1, VarsAssumption
<1>5. Room(heap, n) \subseteq Room(heap, c)
  BY <1>2, <1>3, <1>4 DEF Room, c
<1>. QED
  BY <1>1, <1>2, <1>5 DEF c, Usable

----------------------------------------------------------------------------
\* The early returns of the cofactors: the node itself, or a child of it.
LEMMA CofactorTrivialOrdered ==
  ASSUME Steps, OInv, CofactorTrivial
  PROVE  OInv'
<1>1. stack # <<>> /\ Top.fn = "cofactor" /\ computed' = computed /\ ReleaseOnly
  BY DEF CofactorTrivial, Entering, CallUnchanged
<1>2. PICK n : n = (IF CofactorIsRoot THEN Child(Top.l, Top.op) ELSE Top.l) /\ Return(n)
  BY DEF CofactorTrivial
<1>3. Top.l \in Usable(heap) /\ Top.l \in DOMAIN heap
  BY <1>1, TopFrame DEF Steps, Usable
<1>4. n \in DOMAIN heap /\ Room(heap, Top.l) \subseteq Room(heap, n)
  <2>1. CASE CofactorIsRoot
    <3>1. Top.l \notin {Zero, One}
      BY <1>3, <2>1, UsableNode DEF CofactorIsRoot, Steps
    <3>. QED
      BY <1>2, <1>3, <2>1, <3>1, ChildRoom DEF Steps, OInv
  <2>2. CASE ~CofactorIsRoot
    BY <1>2, <1>3, <2>2
  <2>. QED
    BY <2>1, <2>2
<1>5. \A v \in Nat : (\A m \in Args(Top) : v \in Room(heap, m)) => v \in Room(heap, n)
  BY <1>1, <1>4 DEF Args
<1>. QED
  BY <1>1, <1>2, <1>4, <1>5, ReturnOrdered DEF ReleaseOnly

\* The literal root has the room of the node, and is what the frame holds next.
LEMMA CofactorRootBarOrdered ==
  ASSUME Steps, OInv, CofactorRootBar
  PROVE  OInv'
<1>. DEFINE root == FindUnique(heap[Top.l].var, Zero, One)
            f == [Top EXCEPT !.at = "bar", !.r = root]
            callee == ApplyCall("xor", root, One)
<1>1. stack # <<>> /\ Top.fn = "cofactor" /\ Top.at = "enter" /\ computed' = computed /\ ReleaseOnly
      /\ root # Null /\ Call(f, callee) /\ ~IsTerminal(Top.l)
  BY DEF CofactorRootBar, Entering, CofactorBelow, CallUnchanged
<1>2. /\ root \in DOMAIN heap /\ heap[root].var = heap[Top.l].var /\ heap[root].neg = Zero
  BY <1>1 DEF FindUnique, Triple, Steps, MachineInv, StoreInv, GoodUnique
<1>3. root \notin {Zero, One}
  BY <1>2 DEF Steps, MachineInv, StoreInv, GoodHeap, Zero, Null
<1>4. Top.l \notin {Zero, One}
  BY <1>1, TopFrame, UsableNode DEF Steps
<1>5. Serves(heap, Top, root) /\ Serves(heap, Top, One)
  BY <1>1, <1>2, <1>3, <1>4 DEF Serves, Room
<1>. HIDE DEF root
<1>6. Top \in Frame /\ Partial(Top) = {}
  BY <1>1, HelperServes DEF Steps
<1>7. f.fn = Top.fn /\ f.l = Top.l /\ f.at = "bar" /\ Partial(f) \subseteq {root}
  BY <1>1, <1>6 DEF Frame, Partial
<1>8. One \in DOMAIN heap
  BY TerminalsUsable DEF Steps, Usable
<1>9. OrderedFrame(heap, callee) /\ Args(callee) = {root, One} /\ Held(callee) \subseteq {root, One}
  BY NewApply
<1>. HIDE DEF f, callee
<1>. QED
  BY <1>1, <1>2, <1>5, <1>7, <1>8, <1>9, HelperCallOrdered

\* Every later point of a cofactor, and every point of a difference, calls with
\* what it holds, has got or finds below its node.
LEMMA HelperMoves ==
  ASSUME Steps, OInv, stack # <<>>, Top.fn # "apply", CallUnchanged, ReleaseOnly,
         NEW f, NEW callee, Call(f, callee), f.fn = Top.fn, f.l = Top.l, f.at # "enter",
         Partial(f) \subseteq Partial(Top) \cup ({ret} \ {Null}),
         Held(callee) \subseteq Args(callee), OrderedFrame(heap, callee),
         \A n \in Args(callee) :
           \/ n \in Partial(Top) \cup ({ret} \ {Null}) \cup {Top.l}
           \/ \E branch : n = Child(Top.l, branch) /\ Top.l \notin {Zero, One}
  PROVE  OInv'
<1>1. /\ Top.l \in Usable(heap) /\ OrderedHeap /\ MachineInv
  BY TopFrame DEF Steps, OInv
<1>2. \A n \in Partial(Top) \cup ({ret} \ {Null}) \cup {Top.l} : n \in DOMAIN heap /\ Serves(heap, Top, n)
  BY HelperServes DEF Steps
<1>3. \A branch : Top.l \notin {Zero, One} =>
        Child(Top.l, branch) \in DOMAIN heap /\ Serves(heap, Top, Child(Top.l, branch))
  BY <1>1, ChildRoom DEF Serves
<1>4. \A n \in Partial(f) \cup Args(callee) : n \in DOMAIN heap /\ Serves(heap, Top, n)
  BY <1>2, <1>3
<1>5. computed' = computed
  BY DEF CallUnchanged
<1>. QED
  BY <1>4, <1>5, HelperCallOrdered

\* The recursive calls of the cofactors (project1.cpp:87-88).
LEMMA CofactorChildOrdered ==
  ASSUME Steps, OInv, CofactorLow \/ CofactorHigh
  PROVE  OInv'
<1>1. stack # <<>> /\ Top.fn = "cofactor" /\ Top.at # "enter" /\ ret # Null /\ CallUnchanged /\ ReleaseOnly
  BY DEF CofactorLow, CofactorHigh, Resumed
<1>2. CofactorFrame(Top) /\ Top \in Frame /\ Top.l \notin {Zero, One}
  BY <1>1, CofactorFrameFacts DEF CofactorFrame, Steps
<1>3. PICK f, n : /\ Call(f, CofactorCall(Top.op, n, Top.var))
                  /\ \E branch : n = Child(Top.l, branch)
                  /\ \/ f = [Top EXCEPT !.at = "low", !.a = ret]
                     \/ f = [Top EXCEPT !.at = "high", !.b = ret]
  BY DEF CofactorLow, CofactorHigh, Child
<1>4. f.fn = Top.fn /\ f.l = Top.l /\ f.at # "enter"
      /\ Partial(f) \subseteq Partial(Top) \cup ({ret} \ {Null})
  BY <1>1, <1>2, <1>3 DEF Frame, Partial
<1>. DEFINE callee == CofactorCall(Top.op, n, Top.var)
<1>5. OrderedFrame(heap, callee) /\ Args(callee) = {n} /\ Held(callee) \subseteq {n}
  BY NewHelper DEF CofactorCall
<1>6. Call(f, callee)
  BY <1>3
<1>. HIDE DEF callee
<1>. QED
  BY <1>1, <1>2, <1>3, <1>4, <1>5, <1>6, HelperMoves

\* Their calls of apply (project1.cpp:87-89).
LEMMA CofactorApplyOrdered ==
  ASSUME Steps, OInv, CofactorLeft \/ CofactorRight \/ CofactorJoin
  PROVE  OInv'
<1>1. stack # <<>> /\ Top.fn = "cofactor" /\ Top.at # "enter" /\ ret # Null /\ CallUnchanged /\ ReleaseOnly
  BY DEF CofactorLeft, CofactorRight, CofactorJoin, Resumed
<1>2. CofactorFrame(Top) /\ Top \in Frame
  BY <1>1, CofactorFrameFacts DEF Steps
<1>3. PICK op, n, at : /\ Call([Top EXCEPT !.at = at], ApplyCall(op, n, ret))
                       /\ n \in {Top.a, Top.r, Top.b} /\ n # Null /\ at # "enter"
  <2>1. CASE CofactorLeft
    BY <1>2, <2>1 DEF CofactorLeft, Resumed, CofactorFrame
  <2>2. CASE CofactorRight
    BY <1>2, <2>2 DEF CofactorRight, Resumed, CofactorFrame
  <2>3. CASE CofactorJoin
    BY <1>2, <2>3 DEF CofactorJoin, Resumed, CofactorFrame
  <2>. QED
    BY <2>1, <2>2, <2>3
<1>. DEFINE f == [Top EXCEPT !.at = at]
            callee == ApplyCall(op, n, ret)
<1>4. f.fn = Top.fn /\ f.l = Top.l /\ f.at # "enter" /\ Partial(f) = Partial(Top)
  BY <1>1, <1>2, <1>3 DEF Frame, Partial
<1>5. OrderedFrame(heap, callee) /\ Args(callee) = {n, ret} /\ Held(callee) \subseteq {n, ret}
  BY NewApply
<1>6. Call(f, callee) /\ n \in Partial(Top)
  BY <1>1, <1>3 DEF Partial
<1>. HIDE DEF f, callee
<1>. QED
  BY <1>1, <1>4, <1>5, <1>6, HelperMoves

\* The two cofactors of boolean_difference, in either order (project1.cpp:119).
LEMMA DifferenceCofactorOrdered ==
  ASSUME Steps, OInv, NEW first \in {"neg", "pos"}, DifferenceFirst(first) \/ DifferenceSecond(first)
  PROVE  OInv'
<1>1. stack # <<>> /\ Top.fn = "difference" /\ CallUnchanged /\ ReleaseOnly
  BY DEF DifferenceFirst, DifferenceSecond, Entering, Resumed
<1>2. Top \in Frame
  BY <1>1, TopFrame DEF Steps
<1>3. PICK f, branch : /\ Call(f, CofactorCall(branch, Top.l, Top.var))
                       /\ \/ \E at \in {"negFirst", "posFirst"} : f = [Top EXCEPT !.at = at]
                          \/ f = [Top EXCEPT !.at = "second", !.a = ret]
                          \/ f = [Top EXCEPT !.at = "second", !.b = ret]
  BY DEF DifferenceFirst, DifferenceSecond
<1>4. f.fn = Top.fn /\ f.l = Top.l /\ f.at # "enter"
      /\ Partial(f) \subseteq Partial(Top) \cup ({ret} \ {Null})
  BY <1>1, <1>2, <1>3 DEF Frame, Partial
<1>. DEFINE callee == CofactorCall(branch, Top.l, Top.var)
<1>5. OrderedFrame(heap, callee) /\ Args(callee) = {Top.l} /\ Held(callee) \subseteq {Top.l}
  BY NewHelper DEF CofactorCall
<1>6. Call(f, callee)
  BY <1>3
<1>. HIDE DEF callee
<1>. QED
  BY <1>1, <1>4, <1>5, <1>6, HelperMoves

\* The exclusive or of the two (project1.cpp:119).
LEMMA DifferenceXorOrdered ==
  ASSUME Steps, OInv, DifferenceXor
  PROVE  OInv'
<1>. DEFINE neg == IF Top.a = Null THEN ret ELSE Top.a
            pos == IF Top.a = Null THEN Top.b ELSE ret
            f == [Top EXCEPT !.at = "join"]
            callee == ApplyCall("xor", pos, neg)
<1>1. stack # <<>> /\ Top.fn = "difference" /\ Top.at = "second" /\ ret # Null
      /\ CallUnchanged /\ ReleaseOnly /\ Call(f, callee)
  BY DEF DifferenceXor, Resumed
<1>2. Top \in Frame /\ (Top.a # Null \/ Top.b # Null)
  BY <1>1, TopFrame DEF GoodFrame, Steps
<1>3. {neg, pos} \subseteq Partial(Top) \cup ({ret} \ {Null})
  BY <1>1, <1>2 DEF Partial
<1>. HIDE DEF neg, pos
<1>4. f.fn = Top.fn /\ f.l = Top.l /\ f.at # "enter" /\ Partial(f) = Partial(Top)
  BY <1>1, <1>2 DEF Frame, Partial
<1>5. OrderedFrame(heap, callee) /\ Args(callee) = {pos, neg} /\ Held(callee) \subseteq {pos, neg}
  BY NewApply
<1>. HIDE DEF f, callee
<1>. QED
  BY <1>1, <1>3, <1>4, <1>5, HelperMoves

\* What the last apply returned is returned (project1.cpp:89, 119).
LEMMA ReturnJoinedOrdered ==
  ASSUME Steps, OInv, ReturnJoined
  PROVE  OInv'
<1>1. stack # <<>> /\ ret # Null /\ computed' = computed /\ ReleaseOnly /\ Return(ret) /\ Top.fn # "apply"
  BY DEF ReturnJoined, Resumed, CallUnchanged
<1>2. ret \in DOMAIN heap /\ Serves(heap, Top, ret)
  BY <1>1, HelperServes DEF Steps
<1>3. \A v \in Nat : (\A m \in Args(Top) : v \in Room(heap, m)) => v \in Room(heap, ret)
  BY <1>1, <1>2 DEF Args, Serves
<1>. QED
  BY <1>1, <1>2, <1>3, ReturnOrdered DEF ReleaseOnly

\* sort_by_influence asks for differences of its argument, and returns it.
LEMMA SortOrdered ==
  ASSUME Steps, OInv, SortSweep \/ SortFinish
  PROVE  OInv'
<1>1. stack # <<>> /\ Top.fn = "sort" /\ computed' = computed /\ ReleaseOnly
  BY DEF SortSweep, SortFinish, Sorting, Entering, Resumed
<1>2. /\ Top.l \in DOMAIN heap /\ Top \in Frame /\ Partial(Top) \subseteq DOMAIN heap
      /\ \A n \in Partial(Top) \cup {Top.l} : Serves(heap, Top, n)
  BY <1>1, HelperServes DEF Steps
<1>3. CASE SortSweep
  <2>1. PICK v : Call([Top EXCEPT !.at = "swept", !.var = v], DifferenceCall(Top.l, v))
    BY <1>3 DEF SortSweep
  <2>. DEFINE f == [Top EXCEPT !.at = "swept", !.var = v]
              callee == DifferenceCall(Top.l, v)
  <2>2. f.fn = Top.fn /\ f.l = Top.l /\ f.at # "enter" /\ Partial(f) = Partial(Top)
    BY <1>1, <1>2 DEF Frame, Partial
  <2>3. OrderedFrame(heap, callee) /\ Args(callee) = {Top.l} /\ Held(callee) \subseteq {Top.l}
    BY NewHelper DEF DifferenceCall
  <2>4. Call(f, callee)
    BY <2>1
  <2>. HIDE DEF f, callee
  <2>. QED
    BY <1>1, <1>2, <2>2, <2>3, <2>4, HelperCallOrdered
<1>4. CASE SortFinish
  <2>1. Return(Top.l)
    BY <1>4 DEF SortFinish
  <2>2. \A v \in Nat : (\A m \in Args(Top) : v \in Room(heap, m)) => v \in Room(heap, Top.l)
    BY <1>1 DEF Args
  <2>. QED
    BY <1>1, <1>2, <2>1, <2>2, ReturnOrdered DEF ReleaseOnly
<1>. QED
  BY <1>3, <1>4

----------------------------------------------------------------------------
\* What the frame of an apply may rely on.
LEMMA ApplyServes ==
  ASSUME MachineInv, OInv, stack # <<>>, Top.fn = "apply"
  PROVE  /\ Top \in Frame /\ Args(Top) = {Top.l, Top.r}
         /\ Top.l \in Usable(heap) /\ Top.r \in Usable(heap)
         /\ Partial(Top) \subseteq Usable(heap)
         /\ \A n \in Partial(Top) : Serves(heap, Top, n)
         /\ ret # Null => ret \in Usable(heap) /\ Serves(heap, Top, ret)
         /\ Top.at = "enter" => Partial(Top) = {}
         /\ Top.at # "enter" => Splits(heap, Top)
<1>1. /\ Top \in Frame /\ Held(Top) \subseteq Usable(heap)
      /\ Top.l \in Usable(heap) /\ Top.r \in Usable(heap)
  BY TopFrame, ApplyFrameFacts
<1>2. Partial(Top) \subseteq Usable(heap)
  BY <1>1 DEF Held, Partial
<1>3. OrderedFrame(heap, Top)
  <2>1. Len(stack) \in DOMAIN stack
    BY EmptySeq, LenProperties DEF MachineInv, StackInv
  <2>. QED
    BY <2>1 DEF OInv, OrderedStack, Top
<1>4. ret # Null => ret \in Usable(heap) /\ Serves(heap, Top, ret)
  BY RetUsable DEF OInv, OrderedStack
<1>. QED
  BY <1>1, <1>2, <1>3, <1>4 DEF OrderedFrame, Args

\* A remembered result that is not doomed has the room of its operands.
LEMMA ApplyHitOrdered ==
  ASSUME Steps, OInv, ApplyHit, ~tainted'
  PROVE  OInv'
<1>1. /\ stack # <<>> /\ Top.fn = "apply" /\ computed' = computed /\ ReleaseOnly
      /\ CallKey \in DOMAIN computed \ doomed /\ Return(computed[CallKey])
  BY DEF ApplyHit, Entering
<1>2. Args(Top) = {CallKey.lhs, CallKey.rhs}
  BY <1>1 DEF Args, CallKey, KeyOf
<1>3. OrderedEntry(heap, CallKey, computed[CallKey])
  BY <1>1 DEF OInv, OrderedEntries
<1>4. computed[CallKey] \in DOMAIN heap
  BY <1>1 DEF Steps, MachineInv, StoreInv, GoodComputed, Usable
<1>5. \A v \in Nat : (\A m \in Args(Top) : v \in Room(heap, m)) => v \in Room(heap, computed[CallKey])
  BY <1>2, <1>3 DEF OrderedEntry
<1>. QED
  BY <1>1, <1>4, <1>5, ReturnOrdered DEF ReleaseOnly

\* A terminal case returns an operand, or 0, which has room for all.
LEMMA ApplyTerminalOrdered ==
  ASSUME Steps, OInv, ApplyTerminal
  PROVE  OInv'
<1>. DEFINE res == Operation(Top.op, Top.l, Top.r)
<1>1. stack # <<>> /\ Top.fn = "apply" /\ computed' = computed /\ Return(res) /\ res # Null
  BY DEF ApplyTerminal, Entering
<1>2. PICK h : Release(h, freeIds, doomed) /\ DOMAIN h = DOMAIN heap
  BY DEF ApplyTerminal
<1>3. /\ Args(Top) = {Top.l, Top.r} /\ Top.l \in DOMAIN heap /\ Top.r \in DOMAIN heap
      /\ Top.op \in Ops /\ Zero \in DOMAIN heap
  BY <1>1, ApplyServes, ApplyFrameFacts, TerminalsUsable DEF Usable, Steps
<1>4. res \in {Top.l, Top.r, Zero}
  BY <1>1, <1>3, OperationResult
<1>. HIDE DEF res
<1>5. \A v \in Nat : (\A m \in Args(Top) : v \in Room(heap, m)) => v \in Room(heap, res)
  BY <1>3, <1>4 DEF Room
<1>. QED
  BY <1>1, <1>2, <1>3, <1>4, <1>5, ReturnOrdered

\* find_next_var returns the variable that is highest in the order.
LEMMA NextVarSplits ==
  ASSUME MachineInv, NEW f, f.l \in Usable(heap), f.r \in Usable(heap), f.var = NextVar(f.l, f.r),
         f.l \notin {Zero, One} \/ f.r \notin {Zero, One}
  PROVE  Splits(heap, f)
<1>. DEFINE l == f.l
            r == f.r
            x == heap[l].var
            y == heap[r].var
            v == f.var
<1>1. /\ l \notin {Zero, One} => x \in Nat /\ ~IsTerminal(l)
      /\ r \notin {Zero, One} => y \in Nat /\ ~IsTerminal(r)
      /\ l \in {Zero, One} => IsTerminal(l)
      /\ r \in {Zero, One} => IsTerminal(r)
  BY UsableNode, VarsAssumption
<1>2. CASE l \in {Zero, One}
  <2>1. v = y /\ r \notin {Zero, One} /\ y \in Nat
    BY <1>1, <1>2 DEF NextVar
  <2>. QED
    BY <1>2, <2>1 DEF Splits, Room
<1>3. CASE l \notin {Zero, One} /\ r \in {Zero, One}
  <2>1. v = x /\ x \in Nat
    BY <1>1, <1>3 DEF NextVar
  <2>. QED
    BY <1>3, <2>1 DEF Splits, Room
<1>4. CASE l \notin {Zero, One} /\ r \notin {Zero, One}
  <2>1. v = Min({x, y}) /\ x \in Nat /\ y \in Nat
    BY <1>1, <1>4 DEF NextVar
  <2>. HIDE DEF x, y
  <2>2. {x, y} \in SUBSET Nat /\ {x, y} # {}
    BY <2>1
  <2>3. v \in {x, y} /\ v <= x /\ v <= y
    BY <2>1, <2>2, MinIsLeast
  <2>4. /\ Room(heap, l) = {w \in Nat : w < x} /\ Room(heap, r) = {w \in Nat : w < y}
    BY <1>4 DEF Room, x, y
  <2>5. /\ x = v \/ v \in Room(heap, l)
        /\ y = v \/ v \in Room(heap, r)
        /\ \A w \in Room(heap, l) \cap Room(heap, r) : w < v
    BY <2>1, <2>3, <2>4
  <2>. QED
    BY <2>3, <2>5 DEF Splits, x, y
<1>. QED
  BY <1>2, <1>3, <1>4

\* Below the variable split by come the operands that have another, and the
\* children of those that have it.
LEMMA SubCallServes ==
  ASSUME MachineInv, OrderedHeap, NEW f, f.fn = "apply", f.l \in Usable(heap), f.r \in Usable(heap),
         Splits(heap, f), SplitOperands(heap, f), NEW branch,
         NEW callee, callee = SubCall(f.op, f.var, f.l, f.r, branch)
  PROVE  /\ OrderedFrame(heap, callee)
         /\ Held(callee) \cup Args(callee) \subseteq DOMAIN heap
         /\ \A n \in Args(callee) : Serves(heap, f, n)
<1>. DEFINE l == IF heap[f.l].var = f.var THEN Child(f.l, branch) ELSE f.l
            r == IF heap[f.l].var = f.var /\ heap[f.r].var # f.var THEN f.r
                 ELSE Child(f.r, branch)
<1>1. callee = ApplyCall(f.op, l, r)
  BY DEF SubCall
<1>2. l \in DOMAIN heap /\ f.var \in Room(heap, l)
  BY ChildRoom DEF SplitOperands, Splits, Usable
<1>3. r \in DOMAIN heap /\ f.var \in Room(heap, r)
  <2>1. CASE heap[f.l].var = f.var /\ heap[f.r].var # f.var
    BY <2>1 DEF Splits, Usable
  <2>2. CASE ~(heap[f.l].var = f.var /\ heap[f.r].var # f.var)
    <3>1. heap[f.r].var = f.var /\ f.r \notin {Zero, One} /\ r = Child(f.r, branch)
      BY <2>2 DEF Splits, SplitOperands
    <3>. QED
      BY <3>1, ChildRoom
  <2>. QED
    BY <2>1, <2>2
<1>. HIDE DEF l, r
<1>4. OrderedFrame(heap, callee) /\ Args(callee) = {l, r} /\ Held(callee) \subseteq {l, r}
  BY <1>1, NewApply
<1>. QED
  BY <1>2, <1>3, <1>4 DEF Serves

\* apply splits its operands and makes the first call.
LEMMA ApplySplitOrdered ==
  ASSUME Steps, OInv, NEW first \in {"neg", "pos"}, ApplySplit(first)
  PROVE  OInv'
<1>. DEFINE v == NextVar(Top.l, Top.r)
            sub == SubCall(Top.op, v, Top.l, Top.r, first)
            f == [Top EXCEPT !.at = IF first = "neg" THEN "negFirst" ELSE "posFirst", !.var = v]
<1>1. stack # <<>> /\ Top.fn = "apply" /\ Top.at = "enter" /\ Operation(Top.op, Top.l, Top.r) = Null
      /\ computed' = computed /\ ReleaseOnly
  BY DEF ApplySplit, Recurses, Entering
<1>2. Null \notin {sub.l, sub.r} /\ Call(f, sub)
  BY DEF ApplySplit
<1>3. /\ Top \in Frame /\ Args(Top) = {Top.l, Top.r} /\ Partial(Top) = {} /\ Top.op \in Ops
      /\ Top.l \in Usable(heap) /\ Top.r \in Usable(heap)
  BY <1>1, ApplyServes, ApplyFrameFacts DEF Steps
<1>4. Top.l \notin {Zero, One} \/ Top.r \notin {Zero, One}
  BY <1>1, <1>3, RecursesOnNode DEF Steps
<1>5. /\ f.fn = "apply" /\ f.op = Top.op /\ f.l = Top.l /\ f.r = Top.r /\ f.var = v
      /\ f.at # "enter" /\ f.a = Top.a /\ f.b = Top.b
  BY <1>1, <1>3 DEF Frame
<1>6. SplitOperands(heap, f)
  <2>1. \A n \in {Zero, One} : Child(n, first) = Null
    BY DEF Steps, MachineInv, StoreInv, GoodHeap, Child
  <2>2. /\ sub.l = IF heap[Top.l].var = v THEN Child(Top.l, first) ELSE Top.l
        /\ sub.r = IF heap[Top.l].var = v /\ heap[Top.r].var # v THEN Top.r
                   ELSE Child(Top.r, first)
    BY DEF SubCall, ApplyCall, Activation
  <2>. HIDE DEF sub, f
  <2>. QED
    BY <1>2, <1>5, <2>1, <2>2 DEF SplitOperands
<1>. HIDE DEF f
<1>7. Splits(heap, f)
  BY <1>3, <1>4, <1>5, NextVarSplits DEF Steps
<1>8. sub = SubCall(f.op, f.var, f.l, f.r, first)
  BY <1>5
<1>. HIDE DEF sub
<1>9. /\ OrderedFrame(heap, sub) /\ Held(sub) \cup Args(sub) \subseteq DOMAIN heap
      /\ \A n \in Args(sub) : Serves(heap, f, n)
  BY <1>3, <1>5, <1>6, <1>7, <1>8, SubCallServes DEF Steps, OInv
<1>10. Partial(f) = {} /\ Args(f) = Args(Top) /\ Held(f) \subseteq DOMAIN heap
  BY <1>1, <1>3, <1>5 DEF Partial, Args, Held, Usable
<1>11. OrderedFrame(heap, f)
  BY <1>5, <1>7, <1>10 DEF OrderedFrame
<1>. QED
  BY <1>1, <1>2, <1>9, <1>10, <1>11, CallOrdered

\* It makes the second, and holds the result of the first.
LEMMA ApplySecondOrdered ==
  ASSUME Steps, OInv, NEW first \in {"neg", "pos"}, ApplySecond(first)
  PROVE  OInv'
<1>1. stack # <<>> /\ Top.fn = "apply" /\ ret # Null /\ Top.at \in {"negFirst", "posFirst"}
      /\ computed' = computed /\ ReleaseOnly
  BY DEF ApplySecond, Resumed
<1>2. PICK f, branch : /\ Call(f, SubCall(Top.op, Top.var, Top.l, Top.r, branch))
                       /\ \/ f = [Top EXCEPT !.at = "second", !.a = ret]
                          \/ f = [Top EXCEPT !.at = "second", !.b = ret]
  BY DEF ApplySecond
<1>3. /\ Top \in Frame /\ Args(Top) = {Top.l, Top.r} /\ Splits(heap, Top)
      /\ Top.l \in Usable(heap) /\ Top.r \in Usable(heap) /\ Partial(Top) \subseteq Usable(heap)
      /\ ret \in Usable(heap) /\ \A n \in Partial(Top) \cup {ret} : Serves(heap, Top, n)
  BY <1>1, ApplyServes DEF Steps
<1>4. SplitOperands(heap, Top)
  BY <1>1, ApplyFrameFacts DEF ApplyFrame, Steps
<1>5. /\ f.fn = "apply" /\ f.op = Top.op /\ f.l = Top.l /\ f.r = Top.r /\ f.var = Top.var
      /\ f.at # "enter" /\ {f.a, f.b} \subseteq {Top.a, Top.b, ret}
  BY <1>1, <1>2, <1>3 DEF Frame
<1>. DEFINE sub == SubCall(Top.op, Top.var, Top.l, Top.r, branch)
<1>6. Call(f, sub)
  BY <1>2
<1>7. sub = SubCall(Top.op, Top.var, Top.l, Top.r, branch)
  OBVIOUS
<1>. HIDE DEF sub
<1>8. /\ OrderedFrame(heap, sub) /\ Held(sub) \cup Args(sub) \subseteq DOMAIN heap
      /\ \A n \in Args(sub) : Serves(heap, Top, n)
  BY <1>1, <1>3, <1>4, <1>7, SubCallServes DEF Steps, OInv
<1>9. /\ Partial(f) \subseteq Partial(Top) \cup {ret} /\ Args(f) = Args(Top)
      /\ Held(f) \subseteq DOMAIN heap
  <2>1. Partial(f) \subseteq Partial(Top) \cup {ret} /\ Args(f) = Args(Top)
    BY <1>1, <1>3, <1>5 DEF Partial, Args
  <2>2. Held(f) \subseteq {f.l, f.r} \cup Partial(f)
    BY <1>5 DEF Held, Partial
  <2>. QED
    BY <1>3, <1>5, <2>1, <2>2 DEF Usable
<1>10. \A n : Serves(heap, Top, n) => Serves(heap, f, n)
  BY <1>1, <1>5 DEF Serves
<1>11. Splits(heap, f)
  BY <1>3, <1>5 DEF Splits
<1>12. OrderedFrame(heap, f)
  BY <1>3, <1>5, <1>9, <1>10, <1>11 DEF OrderedFrame
<1>. QED
  BY <1>1, <1>6, <1>8, <1>9, <1>10, <1>12, CallOrdered

\* The node made has room below its variable only, which is what the operands
\* have in common at most, and its children serve it.
LEMMA ApplyBuildOrdered ==
  ASSUME Steps, OInv, ApplyBuild
  PROVE  OInv'
<1>. DEFINE neg == IF Top.a = Null THEN ret ELSE Top.a
            pos == IF Top.a = Null THEN Top.b ELSE ret
            prob == IF Redundant(neg, pos) THEN Unset ELSE Average(neg, pos)
            h == NewNode(Top.var, neg, pos, prob)
            result == IF Redundant(neg, pos) THEN neg ELSE FreshId
            stale == IF Redundant(neg, pos) THEN doomed ELSE doomed \ {CallKey}
            x == FreshId
            v == Top.var
<1>1. stack # <<>> /\ Top.fn = "apply" /\ ret # Null /\ Top.at = "second"
  BY DEF ApplyBuild, Resumed
<1>2. /\ computed' = Remember(neg, pos) /\ Return(result)
      /\ Release(h, Pool \ {x}, stale)
  BY DEF ApplyBuild
<1>3. /\ Args(Top) = {Top.l, Top.r} /\ Splits(heap, Top)
      /\ Top.l \in DOMAIN heap /\ Top.r \in DOMAIN heap
      /\ \A n \in Partial(Top) \cup {ret} : n \in Usable(heap) /\ Serves(heap, Top, n)
  BY <1>1, ApplyServes DEF Steps, Usable
<1>4. v \in Nat /\ v \in Vars /\ (Top.a # Null \/ Top.b # Null)
  BY <1>1, ApplyFrameFacts, VarsAssumption DEF ApplyFrame, Steps
<1>5. {neg, pos} \subseteq Partial(Top) \cup {ret}
  BY <1>1, <1>4 DEF Partial
<1>. HIDE DEF neg, pos, prob
<1>6. \A n \in {neg, pos} : n \in Usable(heap) /\ v \in Room(heap, n)
  BY <1>1, <1>3, <1>5 DEF Serves
<1>7. x \in Nat /\ x \notin DOMAIN heap /\ x \notin {Zero, One}
  BY FreshIdIsFree DEF Steps, MachineInv, StoreInv, GoodHeap, Usable
<1>8. /\ DOMAIN h = DOMAIN heap \cup {x}
      /\ h[x] = [var |-> v, neg |-> neg, pos |-> pos, prob |-> prob]
  BY DEF NewNode, Put
<1>. HIDE DEF h, x
<1>9. DOMAIN heap' \subseteq DOMAIN h /\ \A n \in DOMAIN heap' : heap'[n] = h[n]
  BY <1>2, ReleaseShrinks
<1>10. x \in DOMAIN heap' =>
         heap'[x].var = v /\ heap'[x].neg = neg /\ heap'[x].pos = pos /\ Room(heap', x) = {w \in Nat : w < v}
  BY <1>7, <1>8, <1>9 DEF Room
<1>11. ASSUME NEW n \in DOMAIN heap' \ DOMAIN heap PROVE OrderedNode(heap', n)
  <2>1. n = x
    BY <1>8, <1>9, <1>11
  <2>2. {neg, pos} \subseteq DOMAIN heap /\ {neg, pos} \subseteq DOMAIN heap'
    <3>1. neg \in Usable(heap') /\ pos \in Usable(heap')
      BY <1>7, <1>10, <1>11, <2>1 DEF Steps, MachineInv, StoreInv, GoodHeap
    <3>. QED
      BY <1>6, <3>1 DEF Usable
  <2>3. \A m \in {neg, pos} : v \in Room(heap', m)
    BY <1>6, <2>2, RoomKept DEF Steps
  <2>. QED
    BY <1>10, <1>11, <2>1, <2>3 DEF OrderedNode
<1>12. result \in DOMAIN heap'
  <2>1. result # Null
    BY <1>6, <1>7, UsableNode DEF Null, x, Steps
  <2>2. ret' = result
    BY <1>2 DEF Return
  <2>3. result \in Locals'
    BY <2>1, <2>2 DEF Locals
  <2>. QED
    BY <2>3 DEF Steps, MachineInv, LocalsInv, Usable
<1>13. \A w \in Room(heap, Top.l) \cap Room(heap, Top.r) : w \in Room(heap', result)
  <2>1. \A w \in Room(heap, Top.l) \cap Room(heap, Top.r) : w \in Nat /\ w < v
    BY <1>3 DEF Splits, Room
  <2>2. CASE Redundant(neg, pos)
    <3>1. result = neg /\ neg \in DOMAIN heap
      BY <1>6, <2>2 DEF Usable
    <3>2. Room(heap', neg) = Room(heap, neg)
      BY <1>12, <3>1, RoomKept DEF Steps
    <3>3. neg \notin {Zero, One} => heap[neg].var \in Nat
      BY <1>6, UsableNode, VarsAssumption DEF Steps
    <3>4. \A w \in Nat : w < v => w \in Room(heap, neg)
      BY <1>4, <1>6, <3>3 DEF Room
    <3>. QED
      BY <2>1, <3>1, <3>2, <3>4
  <2>3. CASE ~Redundant(neg, pos)
    <3>1. result = x
      BY <2>3 DEF x
    <3>. QED
      BY <1>10, <1>12, <2>1, <3>1
  <2>. QED
    BY <2>2, <2>3
<1>14. ASSUME NEW k \in DOMAIN computed' \ stale
       PROVE  \/ k \in DOMAIN computed \ doomed /\ computed'[k] = computed[k]
              \/ /\ {k.lhs, k.rhs} \subseteq DOMAIN heap
                 /\ Room(heap, k.lhs) \cap Room(heap, k.rhs) \subseteq Room(heap', computed'[k])
  <2>1. CASE Redundant(neg, pos)
    BY <1>2, <1>14, <2>1 DEF Remember
  <2>2. CASE ~Redundant(neg, pos)
    <3>1. computed' = Put(computed, CallKey, x)
      BY <1>2, <2>2 DEF Remember, x
    <3>2. CASE k = CallKey
      <4>1. computed'[k] = result /\ k.lhs = Top.l /\ k.rhs = Top.r
        BY <2>2, <3>1, <3>2 DEF Put, CallKey, KeyOf, x
      <4>. QED
        BY <1>3, <1>13, <4>1
    <3>3. CASE k # CallKey
      BY <1>14, <2>2, <3>1, <3>3 DEF Put
    <3>. QED
      BY <3>2, <3>3
  <2>. QED
    BY <2>1, <2>2
<1>15. OrderedHeap' /\ OrderedEntries'
  <2>1. DOMAIN heap \subseteq DOMAIN h
    BY <1>8
  <2>. HIDE DEF stale
  <2>. QED
    BY <1>2, <1>11, <1>14, <2>1, StoreOrdered DEF OInv
<1>16. OrderedStack'
  <2>1. \A w \in Nat : (\A m \in Args(Top) : w \in Room(heap, m)) => w \in Room(heap', result)
    BY <1>3, <1>13
  <2>. HIDE DEF result
  <2>. QED
    BY <1>1, <1>2, <2>1, ReturnStackOrdered DEF OInv
<1>. QED
  BY <1>15, <1>16 DEF OInv

----------------------------------------------------------------------------
\* Between the calls of main the stack is empty, or has one frame just made.
LEMMA IdleOrdered ==
  ASSUME stack' = <<>> \/ (ret' = Null /\ \E f : stack' = <<f>> /\ OrderedFrame(heap', f))
  PROVE  OrderedStack'
<1>1. CASE stack' = <<>>
  BY <1>1 DEF OrderedStack
<1>2. CASE stack' # <<>>
  <2>1. PICK f : stack' = <<f>> /\ OrderedFrame(heap', f)
    BY <1>2
  <2>2. DOMAIN stack' = {1} /\ stack'[1] = f
    BY <2>1
  <2>. QED
    BY <1>2, <2>1, <2>2 DEF OrderedStack
<1>. QED
  BY <1>1, <1>2

\* The calls main and bdd_from_expr make keep the order.
LEMMA InvokeOrdered ==
  ASSUME Steps, OInv, computed' = computed, ReleaseOnly, NEW f, NEW r, Invoke(f, r),
         OrderedFrame(heap', f)
  PROVE  OInv'
BY QuietStoreOrdered, IdleOrdered DEF Invoke, ReleaseOnly, OInv

\* So does the pushing of a node that is there.
LEMMA PushOrdered ==
  ASSUME Steps, OInv, computed' = computed, stack' = <<>>,
         NEW h, Release(h, freeIds, doomed), DOMAIN h = DOMAIN heap
  PROVE  OInv'
BY QuietStoreOrdered, IdleOrdered DEF OInv

\* A new literal stands on the two terminals, which have room for all.
LEMMA ReadNewOrdered ==
  ASSUME Steps, OInv, NEW v \in Vars, ReadNew(v)
  PROVE  OInv'
<1>. DEFINE h == NewNode(v, Zero, One, Average(Zero, One))
            ids == Pool \ {FreshId}
<1>1. computed' = computed /\ stack' = <<>> /\ Release(h, ids, doomed)
  BY DEF ReadNew, Reading, Ready, Idle
<1>2. DOMAIN h = DOMAIN heap \cup {FreshId} /\ h[FreshId].var = v
      /\ h[FreshId].neg = Zero /\ h[FreshId].pos = One
  BY DEF NewNode, Put
<1>. HIDE DEF h, ids
<1>3. DOMAIN heap' \subseteq DOMAIN h /\ \A n \in DOMAIN heap' : heap'[n] = h[n]
  BY <1>1, ReleaseShrinks
<1>4. ASSUME NEW n \in DOMAIN heap' \ DOMAIN heap PROVE OrderedNode(heap', n)
  BY <1>2, <1>3, <1>4, VarsAssumption DEF OrderedNode, Room
<1>5. DOMAIN heap \subseteq DOMAIN h
  BY <1>2
<1>6. OrderedHeap' /\ OrderedEntries'
  BY <1>1, <1>4, <1>5, StoreOrdered DEF OInv
<1>. QED
  BY <1>1, <1>6, IdleOrdered DEF OInv

\* When the tables are cleared nothing is remembered.
LEMMA QuitOrdered ==
  ASSUME Steps, OInv, Quit
  PROVE  OInv'
<1>1. DOMAIN computed' = {} /\ stack' = <<>> /\ Release(heap, freeIds, doomed)
  BY DEF Quit, Ready, Idle, Clear, NoEntries, ReleaseOnly
<1>2. DOMAIN heap' \subseteq DOMAIN heap
  BY <1>1, ReleaseShrinks
<1>3. OrderedHeap' /\ OrderedEntries'
  BY <1>1, <1>2, StoreOrdered DEF OInv
<1>. QED
  BY <1>1, <1>3, IdleOrdered DEF OInv

\* A step that leaves the store and the stack alone keeps what holds of them.
LEMMA SameOrdered ==
  ASSUME OInv, UNCHANGED <<tableVars, stack, ret>>
  PROVE  OInv'
BY DEF OInv, OrderedHeap, OrderedEntries, OrderedStack, Top, tableVars

\* Every step of apply.
LEMMA ApplyStepOrdered ==
  ASSUME Steps, OInv, ApplyStep, ~tainted'
  PROVE  OInv'
<1>1. CASE \E first \in {"neg", "pos"} : ApplySplit(first) \/ ApplySecond(first)
  BY <1>1, ApplySplitOrdered, ApplySecondOrdered
<1>2. CASE ApplyNullChild
  BY <1>2, SameOrdered DEF ApplyNullChild
<1>. QED
  BY <1>1, <1>2, ApplyHitOrdered, ApplyTerminalOrdered, ApplyBuildOrdered DEF ApplyStep

\* Every step of the functions that call it.
LEMMA CofactorStepOrdered ==
  ASSUME Steps, OInv, CofactorStep
  PROVE  OInv'
BY CofactorTrivialOrdered, CofactorRootBarOrdered, CofactorChildOrdered, CofactorApplyOrdered,
   DifferenceCofactorOrdered, DifferenceXorOrdered, ReturnJoinedOrdered, SortOrdered
   DEF CofactorStep

\* Every token of an expression.
LEMMA ReadOrdered ==
  ASSUME Steps, OInv, ReadToken
  PROVE  OInv'
<1>1. CASE ReadConstant
  BY <1>1, PushOrdered DEF ReadConstant, Reading, Ready, Idle, ReleaseOnly
<1>2. ASSUME NEW v \in Vars, ReadKnown(v) PROVE OInv'
  <2>1. PICK h : Release(h, freeIds, doomed) /\ DOMAIN h = DOMAIN heap
    BY <1>2 DEF ReadKnown
  <2>2. computed' = computed /\ stack' = <<>>
    BY <1>2 DEF ReadKnown, Reading, Ready, Idle
  <2>. QED
    BY <2>1, <2>2, PushOrdered
<1>3. CASE ReadNot \/ \E op \in {"and", "or"} : ReadBinary(op)
  <2>1. PICK op, l, r, q : Invoke(ApplyCall(op, l, r), q) /\ computed' = computed /\ ReleaseOnly
    BY <1>3 DEF ReadNot, ReadBinary
  <2>. QED
    BY <2>1, InvokeOrdered, NewApply
<1>. QED
  BY <1>1, <1>2, <1>3, ReadNewOrdered DEF ReadToken

\* Every command of the menu.
LEMMA CommandOrdered ==
  ASSUME Steps, OInv, Command
  PROVE  OInv'
<1>1. CASE MenuApply
  BY <1>1, SameOrdered DEF MenuApply, machineVars
<1>2. CASE \E v \in Vars : (\E polarity \in {"neg", "pos"} : MenuCofactor(polarity, v)) \/ MenuDifference(v)
  <2>1. PICK fn, op, v, l, q : /\ fn # "apply" /\ computed' = computed /\ ReleaseOnly
                               /\ Invoke(Activation(fn, op, v, l, Null), q)
    BY <1>2 DEF MenuCofactor, MenuDifference, CofactorCall, DifferenceCall
  <2>. DEFINE f == Activation(fn, op, v, l, Null)
  <2>2. OrderedFrame(heap', f)
    BY <2>1, NewHelper
  <2>3. Invoke(f, q)
    BY <2>1
  <2>. HIDE DEF f
  <2>. QED
    BY <2>1, <2>2, <2>3, InvokeOrdered
<1>3. CASE MenuSort
  <2>1. PICK fn, op, v, l, q : /\ fn # "apply" /\ computed' = computed /\ ReleaseOnly
                               /\ Invoke(Activation(fn, op, v, l, Null), q)
    BY <1>3 DEF MenuSort, SortCall
  <2>. DEFINE f == Activation(fn, op, v, l, Null)
  <2>2. OrderedFrame(heap', f)
    BY <2>1, NewHelper
  <2>3. Invoke(f, q)
    BY <2>1
  <2>. HIDE DEF f
  <2>. QED
    BY <2>1, <2>2, <2>3, InvokeOrdered
<1>4. CASE \E op \in Ops : ApplyToSecond(op)
  <2>1. PICK op, l, r, q : Invoke(ApplyCall(op, l, r), q) /\ computed' = computed /\ ReleaseOnly
    BY <1>4 DEF ApplyToSecond
  <2>. QED
    BY <2>1, InvokeOrdered, NewApply
<1>. QED
  BY <1>1, <1>2, <1>3, <1>4 DEF Command

\* Once tainted, a run stays tainted.
LEMMA TaintStays ==
  ASSUME [Next]_vars, tainted
  PROVE  tainted'
<1>1. CASE ApplyStep \/ CofactorStep
  BY <1>1 DEF ApplyStep, ApplyHit, ApplyTerminal, ApplySplit, ApplySecond, ApplyNullChild, ApplyBuild,
       tableVars, CofactorStep, CofactorTrivial, CofactorRootBar, CofactorLow, CofactorLeft,
       CofactorHigh, CofactorRight, CofactorJoin, DifferenceFirst, DifferenceSecond, DifferenceXor,
       ReturnJoined, SortSweep, SortFinish, CallUnchanged
<1>2. CASE ReadToken
  BY <1>2 DEF ReadToken, ReadConstant, ReadKnown, ReadNew, ReadNot, ReadBinary
<1>3. CASE Command
  BY <1>3 DEF Command, MenuCofactor, MenuDifference, MenuSort, MenuApply, ApplyToSecond, tableVars
<1>4. CASE Deliver \/ EndExpression \/ Quit \/ Stopped \/ UNCHANGED vars
  BY <1>4 DEF Deliver, EndExpression, Quit, Stopped, vars, tableVars
<1>. QED
  BY <1>1, <1>2, <1>3, <1>4 DEF Next, Compute, Typed

\* Every step of the program.
LEMMA StepOrdered ==
  ASSUME IInv, tainted \/ OInv, [Next]_vars
  PROVE  tainted' \/ OInv'
<1>1. SUFFICES ASSUME ~tainted' PROVE OInv'
  OBVIOUS
<1>2. OInv
  BY <1>1, TaintStays
<1>3. Steps
  BY StepGood DEF Steps, IInv
<1>4. CASE ApplyStep \/ CofactorStep
  BY <1>1, <1>2, <1>3, <1>4, ApplyStepOrdered, CofactorStepOrdered
<1>5. CASE ReadToken \/ Command
  BY <1>2, <1>3, <1>5, ReadOrdered, CommandOrdered
<1>6. CASE Deliver
  <2>1. computed' = computed /\ stack' = <<>> /\ Release(heap, freeIds, doomed)
    BY <1>6 DEF Deliver, ReleaseOnly
  <2>. QED
    BY <1>2, <1>3, <2>1, PushOrdered
<1>7. CASE EndExpression \/ Stopped \/ UNCHANGED vars
  BY <1>2, <1>7, SameOrdered DEF EndExpression, Stopped, vars, tableVars, machineVars
<1>. QED
  BY <1>2, <1>3, <1>4, <1>5, <1>6, <1>7, QuitOrdered DEF Next, Compute, Typed

\* Variables increase along every path (project1.cpp:58-70), which has_var and
\* find_next_var rely on, unless a stale entry was met.
THEOREM PathsAreOrdered == Spec => []Ordered
<1>1. Init => tainted \/ OInv
  BY DEF Init, TablesInit, OInv, OrderedHeap, OrderedEntries, OrderedStack, NoEntries
<1>2. IInv /\ (tainted \/ OInv) /\ [Next]_vars => (tainted \/ OInv)'
  BY StepOrdered
<1>3. (tainted \/ OInv) => Ordered
  BY DEF Ordered, OInv, OrderedHeap, OrderedNode, Room
<1>. QED
  BY <1>1, <1>2, <1>3, Invariance, PTL DEF Spec
=============================================================================
